---------------------------- MODULE Spec2Model ----------------------------
(***************************************************************************)
(* A model of the plankton binary codec (python/src/plankton/codec):       *)
(* the object traversers (ObjectTreeDecoder, ObjectGraphDecoder), the      *)
(* BinaryEncoder, the BinaryDecoder and the ObjectBuilder, tied together   *)
(* as encode_binary and decode_binary do.                                  *)
(*                                                                         *)
(* One behaviour is one use of the library: encode_binary(V), then         *)
(* decode_binary on the bytes (possibly cut short or followed by other     *)
(* bytes), then encode_binary on the decoded value.  A second kind of      *)
(* behaviour hands decode_binary a byte stream that no encoder wrote.      *)
(***************************************************************************)
EXTENDS Integers, Sequences, FiniteSets, TLC

(***************************************************************************)
(* Bounds of the model.                                                    *)
(***************************************************************************)
\* cells of a generated object graph
MaxCells == 2
\* children of a generated array or struct
MaxLen == 2
\* length of a generated opcode stream
MaxRawLen == 5
\* longest encoding that is also fed cut short or with trailing bytes
MaxProbeLen == 5
\* the integers from -MaxSmallInt to MaxSmallInt are encoded one by one
MaxSmallInt == 260
\* entries of the longest array, map and seed encoded on its own
MaxEntries == 5
\* characters of the longest string encoded on its own
MaxStrLen == 9
\* tags of a generated tag vector of a struct
MaxTags == 3
\* tags of the longest run of one tag
MaxRun == 10
\* stands for the interpreter's recursion limit: deeper than any finite
\* value of the model nests
MaxDepth == 4

(***************************************************************************)
(* The tag registry (_binary.py).                                          *)
(***************************************************************************)
INT_0_TAG == 0
INT_P_TAG == 8
INT_M_TAG == 9
INT_M1_TAG == 15
INT_M2_TAG == 14
INT_M3_TAG == 13
SINGLETON_NULL_TAG == 16
SINGLETON_TRUE_TAG == 17
SINGLETON_FALSE_TAG == 18
ID_16_TAG == 20
ID_32_TAG == 21
ID_64_TAG == 22
ID_128_TAG == 23
FLOAT_32_TAG == 26
FLOAT_64_TAG == 27
ARRAY_0_TAG == 32
ARRAY_N_TAG == 40
MAP_0_TAG == 48
MAP_N_TAG == 56
BLOB_N_TAG == 72
DEFAULT_STRING_0_TAG == 80
DEFAULT_STRING_N_TAG == 88
SEED_0_TAG == 96
SEED_N_TAG == 104
STRUCT_LINEAR_0_TAG == 128
STRUCT_N_TAG == 136
ADD_REF_TAG == 160
GET_REF_TAG == 161

(***************************************************************************)
(* Values.  An atom carries its payload; a composite is a reference to a   *)
(* cell of a heap, so that two references to one cell are one object.      *)
(* Python's None is the Null value; a missing ref key and the decoder's    *)
(* _current at the end of the input are None too, written NoRef and None.  *)
(***************************************************************************)
None == -1
NoRef == -1

\* a value is [t, v, s]: its type, its number (v) or its sequence (s)
Null == [t |-> "null", v |-> 0, s |-> <<>>]
Bool(b) == [t |-> "bool", v |-> IF b THEN 1 ELSE 0, s |-> <<>>]
IntV(n) == [t |-> "int", v |-> n, s |-> <<>>]
\* a float is its 8 binary64 bytes, little-endian
FloatV(bs) == [t |-> "float", v |-> 0, s |-> bs]
\* an id is its 16 bytes
IdV(bs) == [t |-> "id", v |-> 0, s |-> bs]
\* a string is its sequence of code points
StrV(cps) == [t |-> "str", v |-> 0, s |-> cps]
BlobV(bs) == [t |-> "blob", v |-> 0, s |-> bs]
Ref(i) == [t |-> "ref", v |-> i, s |-> <<>>]

IsRef(x) == x.t = "ref"

\* a cell: items are the children as _traverse_composite yields them
\* (elements; key, value, key, value ...; struct field values)
Cell(k, h, its, tgs) == [kind |-> k, header |-> h, items |-> its, tags |-> tgs]
ArrayCell(its) == Cell("array", Null, its, <<>>)
MapCell(its) == Cell("map", Null, its, <<>>)
SeedCell(h, its) == Cell("seed", h, its, <<>>)
StructCell(tgs, its) == Cell("struct", Null, its, tgs)

(***************************************************************************)
(* Sequences of bytes.                                                     *)
(***************************************************************************)
RECURSIVE Zeros(_)
Zeros(n) == IF n <= 0 THEN <<>> ELSE <<0>> \o Zeros(n - 1)

Take(s, n) == SubSeq(s, 1, IF n < Len(s) THEN n ELSE Len(s))
Drop(s, n) == SubSeq(s, n + 1, Len(s))
Last(s) == s[Len(s)]
Front(s) == SubSeq(s, 1, Len(s) - 1)

RECURSIVE Linear(_)
\* [0, 1, ..., n-1]
Linear(n) == IF n <= 0 THEN <<>> ELSE Linear(n - 1) \o <<n - 1>>

(***************************************************************************)
(* str.encode("utf-8") and bytes.decode("utf-8"), for code points below    *)
(* 0x800 (the one- and two-byte forms).                                    *)
(***************************************************************************)
Utf8Char(cp) ==
  IF cp < 128 THEN <<cp>> ELSE <<192 + (cp \div 64), 128 + (cp % 64)>>

RECURSIVE Utf8Encode(_)
Utf8Encode(cps) ==
  IF cps = <<>> THEN <<>> ELSE Utf8Char(Head(cps)) \o Utf8Encode(Tail(cps))

\* the decoded code points, or <<-1>> for UnicodeDecodeError
RECURSIVE Utf8Decode(_)
Utf8Decode(bs) ==
  IF bs = <<>> THEN <<>>
  ELSE IF bs[1] < 128
    THEN LET rest == Utf8Decode(Tail(bs))
         IN IF rest = <<-1>> THEN rest ELSE <<bs[1]>> \o rest
  ELSE IF bs[1] >= 194 /\ bs[1] < 224 /\ Len(bs) >= 2
          /\ bs[2] >= 128 /\ bs[2] < 192
    THEN LET rest == Utf8Decode(Drop(bs, 2))
         IN IF rest = <<-1>> THEN rest
            ELSE <<(bs[1] - 192) * 64 + (bs[2] - 128)>> \o rest
  ELSE <<-1>>

(***************************************************************************)
(* A visitor call: the method, its argument and the ref key of a           *)
(* composite-begin (NoRef when the caller passes None).                    *)
(***************************************************************************)
Call(op, val, ref) == [op |-> op, val |-> val, ref |-> ref]

(***************************************************************************)
(* BinaryEncoder (_binary.py): a visitor that writes the wire form.        *)
(* Its state: the bytes written to _out, _ref_count, and the exception     *)
(* that ended the call, if any.                                            *)
(***************************************************************************)
NewEncoder(buffer) == [out |-> buffer, ref_count |-> 0, err |-> ""]

\* the common base-128 varint, without the bias of 1
RECURSIVE UnbiasedVarint(_)
UnbiasedVarint(value) ==
  IF value >= 128
    THEN <<(value % 128) + 128>> \o UnbiasedVarint(value \div 128)
    ELSE <<value>>

RECURSIVE write_unsigned_int(_)
write_unsigned_int(value) ==
  IF value >= 128
    THEN <<(value % 128) + 128>> \o write_unsigned_int((value \div 128) - 1)
    ELSE <<value>>

write_bytes(e, data) == [e EXCEPT !.out = @ \o data]

\* an encoder that writes no ADD_REF
NeverAddRef(e, ref_key) == e

BinaryEncoder_maybe_add_ref(e, ref_key) ==
  IF ref_key # NoRef
    THEN [e EXCEPT !.out = @ \o <<ADD_REF_TAG>>, !.ref_count = @ + 1]
    ELSE e

\* an on_int without the one-byte literals
OnIntAlwaysVarint(e, value) ==
  IF value < 0
    THEN write_bytes(e, <<INT_M_TAG>> \o write_unsigned_int(-(value + 1)))
    ELSE write_bytes(e, <<INT_P_TAG>> \o write_unsigned_int(value))

BinaryEncoder_on_int(e, value) ==
  IF value >= 0 /\ value <= 5 THEN write_bytes(e, <<INT_0_TAG + value>>)
  ELSE IF value = -1 THEN write_bytes(e, <<INT_M1_TAG>>)
  ELSE IF value = -2 THEN write_bytes(e, <<INT_M2_TAG>>)
  ELSE IF value = -3 THEN write_bytes(e, <<INT_M3_TAG>>)
  ELSE IF value < 0
    THEN write_bytes(e, <<INT_M_TAG>> \o write_unsigned_int(-(value + 1)))
  ELSE write_bytes(e, <<INT_P_TAG>> \o write_unsigned_int(value))

\* A Python float is held as the 8 bytes of its binary64, least
\* significant first (struct.pack('<d', value)).  Its fields as
\* _encode_float takes them from double_raw: the sign, the biased
\* exponent, and the 52-bit significand as its high 23 bits and its low
\* 29 bits (significand & 0x000001FFFFFFF)
FloatFields(bs) ==
  [sign |-> bs[8] \div 128,
   exponent |-> (bs[8] % 128) * 16 + (bs[7] \div 16),
   high |-> (bs[7] % 16) * 524288 + bs[6] * 2048 + bs[5] * 8 + (bs[4] \div 32),
   low |-> (bs[4] % 32) * 16777216 + bs[3] * 65536 + bs[2] * 256 + bs[1]]

\* value == 0.0 or math.isinf(value) or math.isnan(value)
FloatIsSpecial(bs) ==
  LET f == FloatFields(bs)
  IN \/ f.exponent = 0 /\ f.high = 0 /\ f.low = 0
     \/ f.exponent = 2047

\* struct.pack("<f", value): the 4 bytes of the binary32, least
\* significant first.  _encode_float calls it where the conversion to
\* single precision is exact or the value is a NaN (the conversion of a
\* NaN keeps the sign and the high 23 bits of the significand and sets
\* the quiet bit)
struct_pack_f(bs) ==
  LET f == FloatFields(bs)
      exponent == IF f.exponent = 0 THEN 0
                  ELSE IF f.exponent = 2047 THEN 255
                  ELSE f.exponent - 1023 + 127
      significand == IF f.exponent = 2047 /\ (f.high # 0 \/ f.low # 0)
                          /\ f.high < 4194304
                       THEN f.high + 4194304
                       ELSE f.high
  IN <<significand % 256, (significand \div 256) % 256,
       (exponent % 2) * 128 + (significand \div 65536),
       f.sign * 128 + (exponent \div 2)>>

\* an _encode_float whose mask is one bit short: significand & 0xFFFFFFF
EncodeFloatMask28(bs) ==
  IF FloatIsSpecial(bs) THEN struct_pack_f(bs)
  ELSE IF /\ -126 <= FloatFields(bs).exponent - 1023
          /\ FloatFields(bs).exponent - 1023 <= 127
          /\ FloatFields(bs).low % 268435456 = 0
    THEN struct_pack_f(bs)
  ELSE bs

\* _encode_float
encode_float(bs) ==
  IF FloatIsSpecial(bs) THEN struct_pack_f(bs)
  ELSE IF /\ -126 <= FloatFields(bs).exponent - 1023
          /\ FloatFields(bs).exponent - 1023 <= 127
          /\ FloatFields(bs).low = 0
    THEN struct_pack_f(bs)
  ELSE bs

BinaryEncoder_on_float(e, bs) ==
  IF Len(encode_float(bs)) = 4
    THEN write_bytes(e, <<FLOAT_32_TAG>> \o encode_float(bs))
    ELSE write_bytes(e, <<FLOAT_64_TAG>> \o encode_float(bs))

BinaryEncoder_on_singleton(e, value) ==
  IF value = Null THEN write_bytes(e, <<SINGLETON_NULL_TAG>>)
  ELSE IF value = Bool(TRUE) THEN write_bytes(e, <<SINGLETON_TRUE_TAG>>)
  ELSE write_bytes(e, <<SINGLETON_FALSE_TAG>>)

BinaryEncoder_on_string(e, bytes) ==
  IF Len(bytes) <= 7
    THEN write_bytes(e, <<DEFAULT_STRING_0_TAG + Len(bytes)>> \o bytes)
    ELSE write_bytes(e, <<DEFAULT_STRING_N_TAG>>
                        \o write_unsigned_int(Len(bytes)) \o bytes)

BinaryEncoder_on_blob(e, value) ==
  write_bytes(e, <<BLOB_N_TAG>> \o write_unsigned_int(Len(value)) \o value)

\* uuid.UUID(bytes=bytes).int >= 2**(8*k): a byte above the low k is not 0
IdAtLeast(bytes, k) == \E i \in 1..(16 - k) : bytes[i] # 0

\* uuid.UUID(bytes=bytes).int > 2**(8*k)
IdAbove(bytes, k) ==
  IdAtLeast(bytes, k) /\ bytes # [i \in 1..16 |-> IF i = 16 - k THEN 1 ELSE 0]

\* an on_id that compares with > where on_id compares with >=
OnIdStrict(e, bytes) ==
  IF IdAbove(bytes, 8) THEN write_bytes(e, <<ID_128_TAG>> \o bytes)
  ELSE IF IdAbove(bytes, 4)
    THEN write_bytes(e, <<ID_64_TAG>> \o SubSeq(bytes, 9, 16))
  ELSE IF IdAbove(bytes, 2)
    THEN write_bytes(e, <<ID_32_TAG>> \o SubSeq(bytes, 13, 16))
  ELSE write_bytes(e, <<ID_16_TAG>> \o SubSeq(bytes, 15, 16))

BinaryEncoder_on_id(e, bytes) ==
  IF IdAtLeast(bytes, 8) THEN write_bytes(e, <<ID_128_TAG>> \o bytes)
  ELSE IF IdAtLeast(bytes, 4)
    THEN write_bytes(e, <<ID_64_TAG>> \o SubSeq(bytes, 9, 16))
  ELSE IF IdAtLeast(bytes, 2)
    THEN write_bytes(e, <<ID_32_TAG>> \o SubSeq(bytes, 13, 16))
  ELSE write_bytes(e, <<ID_16_TAG>> \o SubSeq(bytes, 15, 16))

\* a short form that goes one length too far
LengthTagUpTo4(tag_0, tag_n, length) ==
  IF length <= 4 THEN <<tag_0 + length>>
  ELSE <<tag_n>> \o write_unsigned_int(length)

\* the tag of a composite with a short form for lengths 0..3
LengthTag(tag_0, tag_n, length) ==
  IF length <= 3 THEN <<tag_0 + length>>
  ELSE <<tag_n>> \o write_unsigned_int(length)

BinaryEncoder_on_begin_array(e, length, ref_key) ==
  write_bytes(BinaryEncoder_maybe_add_ref(e, ref_key),
              LengthTag(ARRAY_0_TAG, ARRAY_N_TAG, length))

BinaryEncoder_on_begin_map(e, length, ref_key) ==
  write_bytes(BinaryEncoder_maybe_add_ref(e, ref_key),
              LengthTag(MAP_0_TAG, MAP_N_TAG, length))

BinaryEncoder_on_begin_seed(e, length, ref_key) ==
  write_bytes(BinaryEncoder_maybe_add_ref(e, ref_key),
              LengthTag(SEED_0_TAG, SEED_N_TAG, length))

\* add_value: the nibbles of one number
RECURSIVE add_value(_)
add_value(value) ==
  IF value >= 8
    THEN <<(value % 8) + 8>> \o add_value((value \div 8) - 1)
    ELSE <<value>>

\* the end of the run of tags equal to last_value that starts at index
RECURSIVE RunEnd(_, _, _)
RunEnd(tags, end_index, last_value) ==
  IF end_index <= Len(tags) /\ tags[end_index] = last_value
    THEN RunEnd(tags, end_index + 1, last_value)
    ELSE end_index

\* a loop that counts the tag written before the run into the run length
RECURSIVE TagNibblesCountingFirst(_, _, _)
TagNibblesCountingFirst(tags, index, last_value) ==
  IF index > Len(tags) THEN <<>>
  ELSE IF tags[index] = last_value
    THEN LET end_index == RunEnd(tags, index + 1, last_value)
         IN add_value(0) \o add_value(end_index - index + 1)
            \o TagNibblesCountingFirst(tags, end_index, last_value)
  ELSE add_value(tags[index] - last_value)
       \o TagNibblesCountingFirst(tags, index + 1, tags[index])

\* the loop of _write_struct_tags from position index (1-based) on
RECURSIVE TagNibbles(_, _, _)
TagNibbles(tags, index, last_value) ==
  IF index > Len(tags) THEN <<>>
  ELSE IF tags[index] = last_value
    THEN LET end_index == RunEnd(tags, index + 1, last_value)
         IN add_value(0) \o add_value(end_index - index)
            \o TagNibbles(tags, end_index, last_value)
  ELSE add_value(tags[index] - last_value)
       \o TagNibbles(tags, index + 1, tags[index])

\* an add_nibble whose last nibble, when left alone, is written as a byte
\* of its own
RECURSIVE PackNibblesFlushed(_)
PackNibblesFlushed(nibbles) ==
  IF nibbles = <<>> THEN <<>>
  ELSE IF Len(nibbles) = 1 THEN <<nibbles[1] * 16>>
  ELSE <<nibbles[1] * 16 + nibbles[2]>> \o PackNibblesFlushed(Drop(nibbles, 2))

\* add_nibble: a byte is written for every second nibble; a nibble left
\* alone in top_nibble is never written
RECURSIVE PackNibbles(_)
PackNibbles(nibbles) ==
  IF Len(nibbles) < 2 THEN <<>>
  ELSE <<nibbles[1] * 16 + nibbles[2]>> \o PackNibbles(Drop(nibbles, 2))

write_struct_tags(tags) ==
  IF Len(tags) = 0 THEN <<>>
  ELSE PackNibbles(add_value(tags[1]) \o TagNibbles(tags, 2, tags[1]) \o <<0>>)

BinaryEncoder_on_begin_struct(e, tags, ref_key) ==
  LET e1 == BinaryEncoder_maybe_add_ref(e, ref_key)
  IN IF Len(tags) <= 7 /\ tags = Linear(Len(tags))
       THEN write_bytes(e1, <<STRUCT_LINEAR_0_TAG + Len(tags)>>)
       ELSE write_bytes(e1, <<STRUCT_N_TAG>> \o write_unsigned_int(Len(tags))
                            \o write_struct_tags(tags))

\* an on_get_ref whose operand is the slot itself
OnGetRefAbsolute(e, key) ==
  write_bytes(e, <<GET_REF_TAG>> \o write_unsigned_int(key))

\* the tag is written before _write_unsigned_int asserts value >= 0
BinaryEncoder_on_get_ref(e, key) ==
  LET e1 == write_bytes(e, <<GET_REF_TAG>>)
  IN IF e1.ref_count - key - 1 < 0
       THEN [e1 EXCEPT !.err = "AssertionError"]
       ELSE write_bytes(e1, write_unsigned_int(e1.ref_count - key - 1))

\* one visitor call on the encoder; the class has no on_invalid_value
BinaryEncoder_visit(e, c) ==
  CASE c.op = "on_int" -> BinaryEncoder_on_int(e, c.val)
    [] c.op = "on_float" -> BinaryEncoder_on_float(e, c.val)
    [] c.op = "on_singleton" -> BinaryEncoder_on_singleton(e, c.val)
    [] c.op = "on_string" -> BinaryEncoder_on_string(e, c.val)
    [] c.op = "on_blob" -> BinaryEncoder_on_blob(e, c.val)
    [] c.op = "on_id" -> BinaryEncoder_on_id(e, c.val)
    [] c.op = "on_begin_array" -> BinaryEncoder_on_begin_array(e, c.val, c.ref)
    [] c.op = "on_begin_map" -> BinaryEncoder_on_begin_map(e, c.val, c.ref)
    [] c.op = "on_begin_seed" -> BinaryEncoder_on_begin_seed(e, c.val, c.ref)
    [] c.op = "on_begin_struct" -> BinaryEncoder_on_begin_struct(e, c.val, c.ref)
    [] c.op = "on_get_ref" -> BinaryEncoder_on_get_ref(e, c.val)
    [] OTHER -> [e EXCEPT !.err = "AttributeError"]

(***************************************************************************)
(* ObjectBuilder (_object.py): a visitor that builds the object graph.     *)
(* Its state: _refs, _value_stack, _pending_ends, _result, the objects     *)
(* the factory has made so far (heap) and the exception raised, if any.    *)
(* A pending end is [total_count, added_count, callback, open_result,      *)
(* data]; data is <<>> for None, <<field_count>> or the struct's tags.     *)
(***************************************************************************)
Frame(total, cb, open, data) ==
  [total |-> total, added |-> 0, cb |-> cb, open |-> open, data |-> data]

schedule_end(b, total_count, callback, open_result, data) ==
  [b EXCEPT !.pending_ends = Append(@, Frame(total_count, callback, open_result, data))]

\* __init__ and _init: the bottom end of count 2 whose callback is the
\* number 1, and the end that stores the result
NewBuilder ==
  [refs |-> <<>>, value_stack |-> <<>>, result |-> Null, heap |-> <<>>,
   err |-> "",
   pending_ends |-> <<Frame(2, "1", Null, <<>>),
                      Frame(1, "_store_result", Null, <<>>)>>]

\* a has_result that waits for the bottom end to go as well
HasNoPendingEnd(b) == b.pending_ends = <<>>

has_result(b) == Len(b.pending_ends) = 1

Raise(b, exc) == [b EXCEPT !.err = exc]

\* hash(key) succeeds: a bytearray, a list and an OrderedDict are unhashable
Hashable(b, key) ==
  /\ key.t # "blob"
  /\ IsRef(key) => b.heap[key.v].kind \in {"seed", "struct"}

\* key equality of a dict: True == 1 and False == 0; objects by identity
PyNum(x) == x.t \in {"int", "bool"}
PyEq(x, y) == IF PyNum(x) /\ PyNum(y) THEN x.v = y.v ELSE x = y

\* the position of the key equal to key among the entries, or 0
KeyIndex(items, key) ==
  IF \E i \in 1..(Len(items) \div 2) : PyEq(items[2 * i - 1], key)
    THEN CHOOSE i \in 1..(Len(items) \div 2) : PyEq(items[2 * i - 1], key)
    ELSE 0

\* d[key] = value on an OrderedDict: a present key keeps its place
DictSet(items, key, value) ==
  IF KeyIndex(items, key) = 0 THEN items \o <<key, value>>
  ELSE [items EXCEPT ![2 * KeyIndex(items, key)] = value]

\* for i in range(0, total, 2): d[values[i]] = values[i+1], on the dict
\* of cell id; stops at the first unhashable key
RECURSIVE FillDict(_, _, _)
FillDict(b, id, values) ==
  IF values = <<>> THEN b
  ELSE IF ~Hashable(b, values[1]) THEN Raise(b, "TypeError")
  ELSE FillDict([b EXCEPT !.heap[id].items = DictSet(@, values[1], values[2])],
                id, Drop(values, 2))

Max(x, y) == IF x >= y THEN x ELSE y

RECURSIVE push(_, _)
RECURSIVE RunCallback(_, _, _)

\* a _push that does not count the value for the top end
PushUncounted(b, value) ==
  LET n == Len(b.pending_ends)
      top == b.pending_ends[n]
      stack == Append(b.value_stack, value)
      from == Max(1, Len(stack) - top.total + 1)
  IN IF top.added + 1 # top.total
       THEN [b EXCEPT !.value_stack = stack]
       ELSE RunCallback([b EXCEPT !.value_stack = SubSeq(stack, 1, from - 1),
                                  !.pending_ends = Front(@)],
                        top, SubSeq(stack, from, Len(stack)))

\* _push
push(b, value) ==
  LET n == Len(b.pending_ends)
      top == b.pending_ends[n]
      stack == Append(b.value_stack, value)
      from == Max(1, Len(stack) - top.total + 1)
  IN IF top.added + 1 # top.total
       THEN [b EXCEPT !.value_stack = stack, !.pending_ends[n].added = @ + 1]
       ELSE RunCallback([b EXCEPT !.value_stack = SubSeq(stack, 1, from - 1),
                                  !.pending_ends = Front(@)],
                        top, SubSeq(stack, from, Len(stack)))

\* _store_result, _end_array, _end_map, _end_seed_header, _end_seed,
\* _end_struct; calling the bottom end's callback, 1, is a TypeError
RunCallback(b, end, values) ==
  CASE end.cb = "_store_result" ->
         push([b EXCEPT !.result = values[1]], Null)
    [] end.cb = "_end_array" ->
         push([b EXCEPT !.heap[end.open.v].items = values], end.open)
    [] end.cb \in {"_end_map", "_end_seed"} ->
         LET b1 == FillDict(b, end.open.v, values)
         IN IF b1.err # "" THEN b1 ELSE push(b1, end.open)
    [] end.cb = "_end_seed_header" ->
         LET b1 == [b EXCEPT !.heap[end.open.v].header = values[1]]
         IN IF end.data[1] = 0 THEN push(b1, end.open)
            ELSE schedule_end(b1, 2 * end.data[1], "_end_seed", end.open, <<>>)
    [] end.cb = "_end_struct" ->
         push([b EXCEPT !.heap[end.open.v].tags = end.data,
                        !.heap[end.open.v].items = values], end.open)
    [] OTHER -> Raise(b, "TypeError")

\* a builder that registers nothing at a begin instruction
RegisterNothing(b, ref_key, value) == b

\* _maybe_add_ref: if ref_key is not None: self._refs[ref_key] = value
ObjectBuilder_maybe_add_ref(b, ref_key, value) ==
  IF ref_key # NoRef
    THEN [b EXCEPT !.refs = [k \in DOMAIN @ \cup {ref_key} |->
                               IF k = ref_key THEN value ELSE @[k]]]
    ELSE b

\* the factory makes a new, empty object
NewObject(b, kind) == [b EXCEPT !.heap = Append(@, Cell(kind, Null, <<>>, <<>>))]
Newest(b) == Ref(Len(b.heap))

ObjectBuilder_on_begin_array(b, length, ref_key) ==
  LET b1 == NewObject(b, "array")
      array == Newest(b1)
      b2 == ObjectBuilder_maybe_add_ref(b1, ref_key, array)
  IN IF length = 0 THEN push(b2, array)
     ELSE schedule_end(b2, length, "_end_array", array, <<>>)

ObjectBuilder_on_begin_map(b, length, ref_key) ==
  LET b1 == NewObject(b, "map")
      map == Newest(b1)
      b2 == ObjectBuilder_maybe_add_ref(b1, ref_key, map)
  IN IF length = 0 THEN push(b2, map)
     ELSE schedule_end(b2, 2 * length, "_end_map", map, <<>>)

ObjectBuilder_on_begin_seed(b, field_count, ref_key) ==
  LET b1 == NewObject(b, "seed")
      seed == Newest(b1)
      b2 == ObjectBuilder_maybe_add_ref(b1, ref_key, seed)
  IN schedule_end(b2, 1, "_end_seed_header", seed, <<field_count>>)

ObjectBuilder_on_begin_struct(b, tags, ref_key) ==
  LET b1 == NewObject(b, "struct")
      struct == Newest(b1)
      b2 == ObjectBuilder_maybe_add_ref(b1, ref_key, struct)
  IN IF Len(tags) = 0 THEN push(b2, struct)
     ELSE schedule_end(b2, Len(tags), "_end_struct", struct, tags)

\* data.decode(encoding)
ObjectBuilder_on_string(b, data) ==
  IF Utf8Decode(data) = <<-1>> THEN Raise(b, "UnicodeDecodeError")
  ELSE push(b, StrV(Utf8Decode(data)))

\* uuid.UUID(bytes=data) wants 16 bytes
ObjectBuilder_on_id(b, data) ==
  IF Len(data) # 16 THEN Raise(b, "ValueError") ELSE push(b, IdV(data))

\* a builder whose _refs yields None for a missing key
GetRefOrNone(b, key) ==
  IF key \in DOMAIN b.refs THEN push(b, b.refs[key]) ELSE push(b, Null)

\* self._refs[key]
ObjectBuilder_on_get_ref(b, key) ==
  IF key \in DOMAIN b.refs THEN push(b, b.refs[key]) ELSE Raise(b, "KeyError")

\* a builder that takes an unknown instruction for null
InvalidAsNull(b, code) == push(b, Null)

\* raise Exception("Invalid instruction 0x%x" % code)
ObjectBuilder_on_invalid_instruction(b, code) == Raise(b, "InvalidInstruction")

\* one visitor call on the builder; the class has no on_float and no
\* on_invalid_value
ObjectBuilder_visit(b, c) ==
  CASE c.op = "on_int" -> push(b, IntV(c.val))
    [] c.op = "on_singleton" -> push(b, c.val)
    [] c.op = "on_string" -> ObjectBuilder_on_string(b, c.val)
    [] c.op = "on_blob" -> push(b, BlobV(c.val))
    [] c.op = "on_id" -> ObjectBuilder_on_id(b, c.val)
    [] c.op = "on_begin_array" -> ObjectBuilder_on_begin_array(b, c.val, c.ref)
    [] c.op = "on_begin_map" -> ObjectBuilder_on_begin_map(b, c.val, c.ref)
    [] c.op = "on_begin_seed" -> ObjectBuilder_on_begin_seed(b, c.val, c.ref)
    [] c.op = "on_begin_struct" -> ObjectBuilder_on_begin_struct(b, c.val, c.ref)
    [] c.op = "on_get_ref" -> ObjectBuilder_on_get_ref(b, c.val)
    [] c.op = "on_invalid_instruction" ->
         ObjectBuilder_on_invalid_instruction(b, c.val)
    [] OTHER -> Raise(b, "AttributeError")

(***************************************************************************)
(* BinaryDecoder (_binary.py).  Its state: the input stream (its bytes     *)
(* and pos, the number of bytes read from it so far), _current,            *)
(* _has_more, _next_ref_offset and the exception raised, if any.           *)
(* A method that returns something returns [d |-> the decoder after it,    *)
(* ...]; after an exception only d.err counts.                             *)
(***************************************************************************)
NoCall == Call("none", 0, NoRef)

\* _advance: read(1) into _current
advance(d) ==
  IF d.pos < Len(d.input)
    THEN [d EXCEPT !.current = d.input[d.pos + 1], !.pos = @ + 1]
    ELSE [d EXCEPT !.current = None, !.has_more = FALSE]

\* __init__
NewDecoder(input) ==
  advance([input |-> input, pos |-> 0, current |-> None, has_more |-> TRUE,
           next_ref_offset |-> 0, err |-> ""])

\* self._input.read(count): the bytes that are there, at most count
StreamRead(d, count) ==
  [d |-> [d EXCEPT !.pos = IF @ + count < Len(d.input) THEN @ + count
                                ELSE Len(d.input)],
   data |-> SubSeq(d.input, d.pos + 1,
                   IF d.pos + count < Len(d.input) THEN d.pos + count
                   ELSE Len(d.input))]

advance_and_read_block(d, count) ==
  LET r == StreamRead(d, count) IN [d |-> advance(r.d), data |-> r.data]

\* result[0] = self._current fails on None; result[1:] = read(count-1)
\* leaves the bytearray as long as what was read
read_block(d, count) ==
  IF count = 0 THEN [d |-> d, data |-> <<>>]
  ELSE IF d.current = None THEN [d |-> Raise(d, "TypeError"), data |-> <<>>]
  ELSE IF count > 1
    THEN LET r == StreamRead(d, count - 1)
         IN [d |-> advance(r.d), data |-> <<d.current>> \o r.data]
  ELSE [d |-> advance(d), data |-> <<d.current>>]

\* the groups of a varint that starts at _current: the decoder left on
\* the terminal group, and the payloads read
RECURSIVE ReadGroups(_, _)
ReadGroups(d, groups) ==
  IF d.current = None THEN [d |-> Raise(d, "TypeError"), groups |-> groups]
  ELSE IF d.current >= 128
    THEN ReadGroups(advance(d), Append(groups, d.current % 128))
  ELSE [d |-> d, groups |-> Append(groups, d.current)]

\* a decoder of the common base-128 varint: no group is biased
RECURSIVE UnbiasedSum(_, _, _)
UnbiasedSum(groups, i, shift) ==
  IF i > Len(groups) THEN 0
  ELSE (groups[i] % 128) * shift + UnbiasedSum(groups, i + 1, shift * 128)

\* value = first & 0x7F, then value += ((group & 0x7F) + 1) << offset
RECURSIVE GroupSum(_, _, _)
GroupSum(groups, i, shift) ==
  IF i > Len(groups) THEN 0
  ELSE (IF i = 1 THEN groups[1] % 128 ELSE ((groups[i] % 128) + 1) * shift)
       + GroupSum(groups, i + 1, IF i = 1 THEN 128 ELSE shift * 128)

\* _read_unsigned_int: ends with an _advance past the terminal group
read_unsigned_int(d) ==
  LET r == ReadGroups(d, <<>>)
  IN IF r.d.err # "" THEN [d |-> r.d, value |-> 0]
     ELSE [d |-> advance(r.d), value |-> GroupSum(r.groups, 1, 1)]

\* NibbleReader._advance on reader n = [current, next]
NibbleAdvance(d, n) ==
  IF n.next = None
    THEN IF d.current = None
           THEN [d |-> Raise(d, "TypeError"), n |-> n]
           ELSE [d |-> advance(d),
                 n |-> [current |-> d.current \div 16, next |-> d.current % 16]]
    ELSE [d |-> d, n |-> [current |-> n.next, next |-> None]]

\* the while loop of NibbleReader.next_unsigned_int
RECURSIVE NibbleGroups(_, _, _, _)
NibbleGroups(d, n, value, shift) ==
  IF n.current >= 8
    THEN LET a == NibbleAdvance(d, n)
         IN IF a.d.err # "" THEN [d |-> a.d, n |-> a.n, value |-> 0]
            ELSE NibbleGroups(a.d, a.n,
                              value + ((a.n.current % 8) + 1) * shift, shift * 8)
    ELSE [d |-> d, n |-> n, value |-> value]

next_unsigned_int(d, n) ==
  LET a == NibbleAdvance(d, n)
  IN IF a.d.err # "" THEN [d |-> a.d, n |-> a.n, value |-> 0]
     ELSE NibbleGroups(a.d, a.n, a.n.current % 8, 8)

RECURSIVE Repeat(_, _)
Repeat(x, count) == IF count <= 0 THEN <<>> ELSE <<x>> \o Repeat(x, count - 1)

\* the while loop of _read_struct_tags; last_value None is -1
RECURSIVE ReadTagsLoop(_, _, _, _, _, _)
ReadTagsLoop(d, n, length, result, last_value, repeat_next_time) ==
  IF Len(result) >= length THEN [d |-> d, tags |-> result]
  ELSE LET r == next_unsigned_int(d, n)
       IN IF r.d.err # "" THEN [d |-> r.d, tags |-> result]
          ELSE IF last_value = None
            THEN ReadTagsLoop(r.d, r.n, length, Append(result, r.value),
                              r.value, repeat_next_time)
          ELSE IF repeat_next_time
            THEN ReadTagsLoop(r.d, r.n, length,
                              result \o Repeat(last_value, r.value),
                              last_value, FALSE)
          ELSE IF r.value = 0
            THEN ReadTagsLoop(r.d, r.n, length, result, last_value, TRUE)
          ELSE ReadTagsLoop(r.d, r.n, length,
                            Append(result, last_value + r.value),
                            last_value + r.value, FALSE)

read_struct_tags(d, length) ==
  ReadTagsLoop(d, [current |-> None, next |-> None], length, <<>>, None, FALSE)

\* a handler that only advances past its opcode
Plain(d, call) == [d |-> advance(d), call |-> call]

\* a handler that advances and reads a varint operand
LengthHandler(d, op, ref_key) ==
  LET r == read_unsigned_int(advance(d))
  IN [d |-> r.d, call |-> Call(op, r.value, ref_key)]

\* _id_16 .. _id_128: the bytes read, zero bytes in front
IdHandler(d, count) ==
  LET r == advance_and_read_block(d, count)
  IN [d |-> r.d, call |-> Call("on_id", Zeros(16 - count) \o r.data, NoRef)]

\* _float_32, _float_64: struct.unpack wants exactly count bytes; the
\* call carries the packed bytes
FloatHandler(d, count) ==
  LET r == advance_and_read_block(d, count)
  IN IF Len(r.data) # count
       THEN [d |-> Raise(r.d, "struct.error"), call |-> NoCall]
       ELSE [d |-> r.d, call |-> Call("on_float", r.data, NoRef)]

\* _default_string_1 .. _default_string_7
StringHandler(d, count) ==
  LET r == advance_and_read_block(d, count)
  IN [d |-> r.d, call |-> Call("on_string", r.data, NoRef)]

\* _blob_n and _default_string_n
BlockHandler(d, op) ==
  LET r == read_unsigned_int(advance(d))
      blk == read_block(r.d, r.value)
  IN IF r.d.err # "" THEN [d |-> r.d, call |-> NoCall]
     ELSE [d |-> blk.d, call |-> Call(op, blk.data, NoRef)]

\* _struct_n
StructNHandler(d, ref_key) ==
  LET r == read_unsigned_int(advance(d))
      tg == read_struct_tags(r.d, r.value)
  IN IF r.d.err # "" THEN [d |-> r.d, call |-> NoCall]
     ELSE [d |-> tg.d, call |-> Call("on_begin_struct", tg.tags, ref_key)]

\* _get_ref
GetRefHandler(d) ==
  LET r == read_unsigned_int(advance(d))
  IN [d |-> r.d,
      call |-> Call("on_get_ref", r.d.next_ref_offset - r.value - 1, NoRef)]

\* decode_next(ref_key): [d, call], call the one visitor call made
RECURSIVE decode_next(_, _)
decode_next(d, ref_key) ==
  LET op == d.current
  IN IF ~d.has_more THEN [d |-> Raise(d, "AssertionError"), call |-> NoCall]
     ELSE CASE op \in 0..5 -> Plain(d, Call("on_int", op - INT_0_TAG, NoRef))
       [] op = INT_P_TAG -> LengthHandler(d, "on_int", NoRef)
       [] op = INT_M_TAG ->
            LET r == read_unsigned_int(advance(d))
            IN [d |-> r.d, call |-> Call("on_int", -(r.value + 1), NoRef)]
       [] op = INT_M1_TAG -> Plain(d, Call("on_int", -1, NoRef))
       [] op = INT_M2_TAG -> Plain(d, Call("on_int", -2, NoRef))
       [] op = INT_M3_TAG -> Plain(d, Call("on_int", -3, NoRef))
       [] op = SINGLETON_NULL_TAG -> Plain(d, Call("on_singleton", Null, NoRef))
       [] op = SINGLETON_TRUE_TAG ->
            Plain(d, Call("on_singleton", Bool(TRUE), NoRef))
       [] op = SINGLETON_FALSE_TAG ->
            Plain(d, Call("on_singleton", Bool(FALSE), NoRef))
       [] op = ID_16_TAG -> IdHandler(d, 2)
       [] op = ID_32_TAG -> IdHandler(d, 4)
       [] op = ID_64_TAG -> IdHandler(d, 8)
       [] op = ID_128_TAG -> IdHandler(d, 16)
       [] op = FLOAT_32_TAG -> FloatHandler(d, 4)
       [] op = FLOAT_64_TAG -> FloatHandler(d, 8)
       [] op \in 32..35 ->
            Plain(d, Call("on_begin_array", op - ARRAY_0_TAG, ref_key))
       [] op = ARRAY_N_TAG -> LengthHandler(d, "on_begin_array", ref_key)
       [] op \in 48..51 ->
            Plain(d, Call("on_begin_map", op - MAP_0_TAG, ref_key))
       [] op = MAP_N_TAG -> LengthHandler(d, "on_begin_map", ref_key)
       [] op = BLOB_N_TAG -> BlockHandler(d, "on_blob")
       [] op = DEFAULT_STRING_0_TAG -> Plain(d, Call("on_string", <<>>, NoRef))
       [] op \in 81..87 -> StringHandler(d, op - DEFAULT_STRING_0_TAG)
       [] op = DEFAULT_STRING_N_TAG -> BlockHandler(d, "on_string")
       [] op \in 96..99 ->
            Plain(d, Call("on_begin_seed", op - SEED_0_TAG, ref_key))
       [] op = SEED_N_TAG -> LengthHandler(d, "on_begin_seed", ref_key)
       [] op \in 128..135 ->
            Plain(d, Call("on_begin_struct",
                          Linear(op - STRUCT_LINEAR_0_TAG), ref_key))
       [] op = STRUCT_N_TAG -> StructNHandler(d, ref_key)
       [] op = ADD_REF_TAG ->
            decode_next([advance(d) EXCEPT !.next_ref_offset = @ + 1],
                        d.next_ref_offset)
       [] op = GET_REF_TAG -> GetRefHandler(d)
       [] OTHER -> [d |-> d, call |-> Call("on_invalid_instruction", op, NoRef)]

(***************************************************************************)
(* The object traversers (_object.py): AbstractObjectDecoder and its       *)
(* subclasses ObjectTreeDecoder and ObjectGraphDecoder.  The recursion of  *)
(* _decode is kept as a stack: todo holds the values whose _decode call    *)
(* is still to come, the next one first, each with the depth of its call.  *)
(* The identity of an object (id(value)) is the number of its cell.        *)
(***************************************************************************)
IsComposite(value) == IsRef(value)

\* _traverse_composite
traverse_composite(cell) == cell.items

\* has_seen_once and has_seen_twice after _look_for_shared_structure(value)
RECURSIVE look_for_shared_structure(_, _, _)
RECURSIVE LookAtEach(_, _, _)
look_for_shared_structure(seen, heap, value) ==
  IF ~IsComposite(value) THEN seen
  ELSE IF value.v \in seen.once
    \* _check_if_already_seen
    THEN [seen EXCEPT !.twice = @ \cup {value.v}]
  ELSE LookAtEach([seen EXCEPT !.once = @ \cup {value.v}], heap,
                  traverse_composite(heap[value.v]))

LookAtEach(seen, heap, elms) ==
  IF elms = <<>> THEN seen
  ELSE LookAtEach(look_for_shared_structure(seen, heap, Head(elms)),
                  heap, Tail(elms))

Todo(value, depth) == [v |-> value, depth |-> depth]

\* ObjectTreeDecoder(visitor), about to run decode(value)
NewTreeDecoder(heap, value) ==
  [kind |-> "tree", heap |-> heap, todo |-> <<Todo(value, 1)>>,
   next_ref_offset |-> 0, ids_seen |-> {},
   has_seen_once |-> {}, has_seen_twice |-> {},
   ref_offsets |-> <<>>, ref_count |-> 0, err |-> ""]

\* ObjectGraphDecoder(visitor) after the _preprocess(value) of decode
NewGraphDecoder(heap, value) ==
  LET seen == look_for_shared_structure([once |-> {}, twice |-> {}], heap, value)
  IN [kind |-> "graph", heap |-> heap, todo |-> <<Todo(value, 1)>>,
      next_ref_offset |-> 0, ids_seen |-> {},
      has_seen_once |-> seen.once, has_seen_twice |-> seen.twice,
      ref_offsets |-> <<>>, ref_count |-> 0, err |-> ""]

\* a _should_add_ref that does not look in ref_offsets first
ShouldAddRefAgain(t, id) ==
  IF t.kind = "tree" THEN [t |-> t, yes |-> FALSE]
  ELSE IF id \in t.has_seen_twice
    THEN [t |-> [t EXCEPT !.ref_offsets = [k \in DOMAIN @ \cup {id} |->
                                              IF k = id THEN t.ref_count ELSE @[k]],
                          !.ref_count = @ + 1],
          yes |-> TRUE]
  ELSE [t |-> t, yes |-> FALSE]

\* _should_add_ref: [t, yes]
should_add_ref(t, id) ==
  IF t.kind = "tree" THEN [t |-> t, yes |-> FALSE]
  ELSE IF id \in DOMAIN t.ref_offsets THEN [t |-> t, yes |-> FALSE]
  ELSE IF id \in t.has_seen_twice
    THEN [t |-> [t EXCEPT !.ref_offsets = [k \in DOMAIN @ \cup {id} |->
                                              IF k = id THEN t.ref_count ELSE @[k]],
                          !.ref_count = @ + 1],
          yes |-> TRUE]
  ELSE [t |-> t, yes |-> FALSE]

\* a _get_backref whose tree decoder does not look for a second visit
BackrefUnchecked(t, id) ==
  IF t.kind = "tree" THEN [t |-> t, ref |-> None]
  ELSE [t |-> t,
        ref |-> IF id \in DOMAIN t.ref_offsets THEN t.ref_offsets[id] ELSE None]

\* _get_backref: [t, ref]; the tree decoder raises on a second visit
get_backref(t, id) ==
  IF t.kind = "tree"
    THEN IF id \in t.ids_seen
           THEN [t |-> Raise(t, "SharedStructureDetected"), ref |-> None]
           ELSE [t |-> [t EXCEPT !.ids_seen = @ \cup {id}], ref |-> None]
    ELSE [t |-> t,
          ref |-> IF id \in DOMAIN t.ref_offsets THEN t.ref_offsets[id] ELSE None]

\* the on_begin_* call of _decode_array, _decode_map, _decode_seed and
\* _decode_struct
BeginCall(cell, ref_key) ==
  CASE cell.kind = "array" -> Call("on_begin_array", Len(cell.items), ref_key)
    [] cell.kind = "map" -> Call("on_begin_map", Len(cell.items) \div 2, ref_key)
    [] cell.kind = "seed" -> Call("on_begin_seed", Len(cell.items) \div 2, ref_key)
    [] cell.kind = "struct" -> Call("on_begin_struct", cell.tags, ref_key)

\* the values the _decode_* methods pass to _decode, in order
SubValues(cell) ==
  IF cell.kind = "seed" THEN <<cell.header>> \o traverse_composite(cell)
  ELSE traverse_composite(cell)

TodoEach(values, depth) == [i \in 1..Len(values) |-> Todo(values[i], depth)]

\* _decode_array .. _decode_struct on the composite at the head of todo
DecodeComposite(t, id, depth) ==
  LET add == should_add_ref(t, id)
      back == get_backref(t, id)
      rest == Tail(t.todo)
      cell == t.heap[id]
  IN IF add.yes
       \* ref_key = self._get_ref_offset()
       THEN [t |-> [add.t EXCEPT !.next_ref_offset = @ + 1,
                                 !.todo = TodoEach(SubValues(cell), depth + 1) \o rest],
             call |-> BeginCall(cell, add.t.next_ref_offset)]
     ELSE IF back.t.err # ""
       THEN [t |-> back.t, call |-> NoCall]
     ELSE IF back.ref # None
       THEN [t |-> [back.t EXCEPT !.todo = rest],
             call |-> Call("on_get_ref", back.ref, NoRef)]
     ELSE [t |-> [back.t EXCEPT !.todo = TodoEach(SubValues(cell), depth + 1) \o rest],
           call |-> BeginCall(cell, NoRef)]

\* one call of _decode, up to its first nested call: [t, call]
decode(t) ==
  LET value == Head(t.todo).v
      depth == Head(t.todo).depth
      rest == [t EXCEPT !.todo = Tail(@)]
  IN IF depth > MaxDepth THEN [t |-> Raise(t, "RecursionError"), call |-> NoCall]
     ELSE CASE value.t \in {"null", "bool"} ->
                 [t |-> rest, call |-> Call("on_singleton", value, NoRef)]
            [] value.t = "int" ->
                 [t |-> rest, call |-> Call("on_int", value.v, NoRef)]
            [] value.t = "str" ->
                 [t |-> rest, call |-> Call("on_string", Utf8Encode(value.s), NoRef)]
            [] value.t = "ref" -> DecodeComposite(t, value.v, depth)
            [] value.t = "id" ->
                 [t |-> rest, call |-> Call("on_id", value.s, NoRef)]
            [] value.t = "blob" ->
                 [t |-> rest, call |-> Call("on_blob", value.s, NoRef)]
            [] OTHER ->
                 [t |-> rest, call |-> Call("on_invalid_value", value, NoRef)]

(***************************************************************************)
(* The text form (_text.py).  A text is its sequence of code points; None  *)
(* on the value stack of the TextEncoder is the text <<None>>.             *)
(***************************************************************************)
\* str(value) of an int
RECURSIVE str(_)
str(value) ==
  IF value < 0 THEN <<45>> \o str(-value)
  ELSE IF value < 10 THEN <<48 + value>>
  ELSE str(value \div 10) \o <<48 + (value % 10)>>

\* base64.b64encode: A-Z, a-z, 0-9, + and /, padded with =
RECURSIVE b64encode(_)
b64encode(data) ==
  LET Char(i) == IF i < 26 THEN 65 + i
                 ELSE IF i < 52 THEN 71 + i
                 ELSE IF i < 62 THEN i - 4
                 ELSE IF i = 62 THEN 43 ELSE 47
      a == data[1]
      b == IF Len(data) > 1 THEN data[2] ELSE 0
      c == IF Len(data) > 2 THEN data[3] ELSE 0
  IN IF data = <<>> THEN <<>>
     ELSE <<Char(a \div 4), Char((a % 4) * 16 + (b \div 16))>>
          \o (IF Len(data) = 1 THEN <<61, 61>>
              ELSE IF Len(data) = 2 THEN <<Char((b % 16) * 4), 61>>
              ELSE <<Char((b % 16) * 4 + (c \div 64)), Char(c % 64)>>)
          \o b64encode(Drop(data, 3))

\* TextEncoder.__init__ on top of StackingBuilder.__init__: the bottom
\* end, the end that stores the result, the end that writes the text; an
\* end holds the ref key in open, and in data the field count of a seed
\* and the text of its header
NewTextEncoder ==
  LET none == [count |-> 0, texts |-> <<>>]
  IN [out |-> <<>>, value_stack |-> <<>>, result |-> <<None>>, err |-> "",
      pending_ends |-> <<Frame(2, "1", NoRef, none),
                         Frame(1, "_store_result", NoRef, none),
                         Frame(1, "_flush", NoRef, none)>>]

\* _maybe_add_ref: "$%s:%s" % (ref_key, text)
TextEncoder_maybe_add_ref(ref_key, text) ==
  IF ref_key = NoRef THEN text ELSE <<36>> \o str(ref_key) \o <<58>> \o text

\* StackingBuilder._push with the callbacks of the TextEncoder: _flush,
\* _store_result, _end_array, _end_map, _end_seed_header, _end_seed;
\* calling the bottom end's callback, 1, is a TypeError
RECURSIVE TextEncoder_push(_, _)
TextEncoder_push(e, value) ==
  LET n == Len(e.pending_ends)
      top == e.pending_ends[n]
      stack == Append(e.value_stack, value)
      from == Max(1, Len(stack) - top.total + 1)
      values == SubSeq(stack, from, Len(stack))
      e1 == [e EXCEPT !.value_stack = SubSeq(stack, 1, from - 1),
                      !.pending_ends = Front(@)]
      RECURSIVE Join(_)
      Join(texts) ==
        IF texts = <<>> THEN <<>>
        ELSE IF Len(texts) = 1 THEN texts[1]
        ELSE texts[1] \o <<44, 32>> \o Join(Tail(texts))
      pairs == [i \in 1..(Len(values) \div 2) |->
                  values[2 * i - 1] \o <<58, 32>> \o values[2 * i]]
      Pushed(text) ==
        TextEncoder_push(e1, TextEncoder_maybe_add_ref(top.open, text))
  IN IF top.added + 1 # top.total
       THEN [e EXCEPT !.value_stack = stack, !.pending_ends[n].added = @ + 1]
     ELSE CASE top.cb = "_flush" -> [e1 EXCEPT !.out = @ \o values[1]]
            [] top.cb = "_store_result" ->
                 TextEncoder_push([e1 EXCEPT !.result = values[1]], <<None>>)
            [] top.cb = "_end_array" -> Pushed(<<91>> \o Join(values) \o <<93>>)
            [] top.cb = "_end_map" -> Pushed(<<123>> \o Join(pairs) \o <<125>>)
            [] top.cb = "_end_seed_header" ->
                 IF top.data.count = 0 THEN Pushed(<<64>> \o values[1])
                 ELSE schedule_end(e1, 2 * top.data.count, "_end_seed", top.open,
                                   [count |-> 0, texts |-> values])
            [] top.cb = "_end_seed" ->
                 Pushed(<<64>> \o top.data.texts[1] \o <<40>> \o Join(pairs)
                        \o <<41>>)
            [] OTHER -> Raise(e1, "TypeError")

\* one visitor call on the TextEncoder; on_begin_struct is "pass"; the
\* class has no on_float and no on_invalid_value
TextEncoder_visit(e, c) ==
  LET none == [count |-> 0, texts |-> <<>>]
      Hex(d) == IF d < 10 THEN 48 + d ELSE 87 + d
      RECURSIVE Digits(_)
      Digits(bs) ==
        IF bs = <<>> THEN <<>>
        ELSE <<Hex(bs[1] \div 16), Hex(bs[1] % 16)>> \o Digits(Tail(bs))
  IN CASE c.op = "on_int" -> TextEncoder_push(e, str(c.val))
       [] c.op = "on_singleton" ->
            TextEncoder_push(e, IF c.val = Null THEN <<37, 110>>
                                ELSE IF c.val = Bool(TRUE) THEN <<37, 116>>
                                ELSE <<37, 102>>)
       [] c.op = "on_string" ->
            IF Utf8Decode(c.val) = <<-1>> THEN Raise(e, "UnicodeDecodeError")
            ELSE TextEncoder_push(e, <<34>> \o Utf8Decode(c.val) \o <<34>>)
       [] c.op = "on_begin_array" ->
            IF c.val = 0
              THEN TextEncoder_push(e, TextEncoder_maybe_add_ref(c.ref, <<91, 93>>))
              ELSE schedule_end(e, c.val, "_end_array", c.ref, none)
       [] c.op = "on_begin_map" ->
            IF c.val = 0
              THEN TextEncoder_push(e, TextEncoder_maybe_add_ref(c.ref, <<123, 125>>))
              ELSE schedule_end(e, 2 * c.val, "_end_map", c.ref, none)
       [] c.op = "on_id" ->
            IF Len(c.val) # 16 THEN Raise(e, "ValueError")
            ELSE TextEncoder_push(e, <<38>> \o
                   (IF IdAtLeast(c.val, 8) THEN Digits(c.val)
                    ELSE IF IdAtLeast(c.val, 4) THEN Digits(SubSeq(c.val, 9, 16))
                    ELSE IF IdAtLeast(c.val, 2) THEN Digits(SubSeq(c.val, 13, 16))
                    ELSE IF IdAtLeast(c.val, 1) THEN Digits(SubSeq(c.val, 15, 16))
                    ELSE IF c.val[16] < 16 THEN <<Hex(c.val[16])>>
                    ELSE Digits(<<c.val[16]>>)))
       [] c.op = "on_blob" ->
            TextEncoder_push(e, <<37, 91>> \o b64encode(c.val) \o <<93>>)
       [] c.op = "on_begin_seed" ->
            schedule_end(e, 1, "_end_seed_header", c.ref,
                         [count |-> c.val, texts |-> <<>>])
       [] c.op = "on_begin_struct" -> e
       [] c.op = "on_get_ref" -> TextEncoder_push(e, <<36>> \o str(c.val))
       [] c.op = "on_invalid_instruction" -> Raise(e, "InvalidInstruction")
       [] OTHER -> Raise(e, "AttributeError")

\* base64.b64decode: characters outside the alphabet are dropped, the
\* data ends at the first =; <<-1>> for binascii.Error
b64decode(text) ==
  LET Alphabet == (65..90) \cup (97..122) \cup (48..57) \cup {43, 47}
      Val(c) == IF c \in 65..90 THEN c - 65
                ELSE IF c \in 97..122 THEN c - 71
                ELSE IF c \in 48..57 THEN c + 4
                ELSE IF c = 43 THEN 62 ELSE 63
      Kept(c) == c \in Alphabet \cup {61}
      IsPad(c) == c = 61
      kept == SelectSeq(text, Kept)
      pads == Len(SelectSeq(kept, IsPad))
      RECURSIVE Data(_)
      Data(s) == IF s = <<>> \/ s[1] = 61 THEN <<>> ELSE <<Val(s[1])>> \o Data(Tail(s))
      RECURSIVE Quads(_)
      Quads(s) ==
        IF Len(s) < 2 THEN <<>>
        ELSE <<s[1] * 4 + (s[2] \div 16)>>
             \o (IF Len(s) >= 3 THEN <<(s[2] % 16) * 16 + (s[3] \div 4)>> ELSE <<>>)
             \o (IF Len(s) >= 4 THEN <<(s[3] % 4) * 64 + s[4]>> ELSE <<>>)
             \o Quads(Drop(s, 4))
      data == Data(kept)
  IN IF \/ Len(data) % 4 = 1
        \/ Len(data) % 4 = 2 /\ pads < 2
        \/ Len(data) % 4 = 3 /\ pads < 1
       THEN <<-1>>
       ELSE Quads(data)

\* list(Tokenizer(input).tokenize()): [tokens, err].  A token is
\* [k, v, s]: a number with its value v, a string with its code points s,
\* a blob or an id with its bytes s, a marker (n, t, f) with its offset v
\* and its letter s, a punctuation with its character v, a reference with
\* its name s, the end with its offset v.  Code points are below 0x100.
tokenize(input) ==
  LET Space == (9..13) \cup (28..32) \cup {133, 160}
      Digit == (48..57) \cup {178, 179, 185}
      Alnum == Digit \cup (65..90) \cup (97..122) \cup {170, 181, 186}
               \cup (188..190) \cup (192..214) \cup (216..246) \cup (248..255)
      HexChars == (48..57) \cup (65..70) \cup (97..102)
      AnyChar == 0..2047
      Tok(k, v, s) == [k |-> k, v |-> v, s |-> s]
      One(tok, q, e) == [tok |-> tok, q |-> q, err |-> e]
      NotUnderscore(c) == c # 95
      NotNewline(c) == c # 10
      NotBlank(c) == c \notin {9, 10, 11, 12, 13, 32}
      RECURSIVE Run(_, _)
      Run(p, S) == IF p <= Len(input) /\ input[p] \in S THEN Run(p + 1, S) ELSE p
      RECURSIVE IntOf(_)
      IntOf(ds) == IF ds = <<>> THEN 0 ELSE IntOf(Front(ds)) * 10 + (Last(ds) - 48)
      HexVal(c) == IF c <= 57 THEN c - 48 ELSE IF c <= 70 THEN c - 55 ELSE c - 87
      RECURSIVE FromHex(_)
      FromHex(hs) ==
        IF hs = <<>> THEN <<>>
        ELSE <<HexVal(hs[1]) * 16 + HexVal(hs[2])>> \o FromHex(Drop(hs, 2))
      IsHex(hs) == Len(hs) % 2 = 0 /\ \A i \in 1..Len(hs) : hs[i] \in HexChars
      \* _read_number
      Number(p) ==
        LET q == Run(p, Digit \cup {45, 95})
            text == SelectSeq(SubSeq(input, p, q - 1), NotUnderscore)
            digits == IF text[1] = 45 THEN Tail(text) ELSE text
        IN IF digits = <<>> \/ \E i \in 1..Len(digits) : digits[i] \notin 48..57
             THEN One(Tok("end", 0, <<>>), q, "ValueError")
             ELSE One(Tok("number", IF text[1] = 45 THEN -IntOf(digits) ELSE IntOf(digits),
                          <<>>), q, "")
      \* _read_marker and _read_blob
      Marker(p) ==
        LET q1 == Run(p + 1, Alnum)
            q == IF q1 <= Len(input) /\ input[q1] \in {91, 123} THEN q1 + 1 ELSE q1
            result == SubSeq(input, p + 1, q - 1)
            r == Run(q, AnyChar \ {93})
            content == SubSeq(input, q, r - 1)
            hex == SelectSeq(content, NotBlank)
            data == IF result = <<120, 91>>
                      THEN IF IsHex(hex) THEN FromHex(hex) ELSE <<-1>>
                      ELSE b64decode(SelectSeq(content, NotNewline))
        IN IF result \in {<<91>>, <<120, 91>>, <<117, 91>>}
             THEN IF data = <<-1>>
                    THEN One(Tok("end", 0, <<>>), r + 1,
                             IF result = <<120, 91>> THEN "ValueError"
                             ELSE "binascii.Error")
                    ELSE One(Tok("blob", 0, data), r + 1, "")
           ELSE IF result \in {<<110>>, <<116>>, <<102>>}
             THEN One(Tok("marker", p, result), q, "")
           ELSE One(Tok("end", 0, <<>>), q, "SyntaxError")
      \* _read_id
      Id(p) ==
        LET q == Run(p + 1, HexChars)
            short == SubSeq(input, p + 1, q - 1)
            padded == Repeat(48, 32 - Len(short)) \o short
        IN IF Len(padded) % 2 = 1 THEN One(Tok("end", 0, <<>>), q, "ValueError")
           ELSE One(Tok("id", 0, FromHex(padded)), q, "")
      \* _read_next
      ReadNext(p) ==
        LET c == input[p]
        IN IF c \in Digit \cup {45} THEN Number(p)
           ELSE IF c = 37 THEN Marker(p)
           ELSE IF c = 36
             THEN One(Tok("reference", 0, SubSeq(input, p + 1, Run(p + 1, Alnum) - 1)),
                      Run(p + 1, Alnum), "")
           ELSE IF c = 38 THEN Id(p)
           ELSE IF c \in {91, 93, 44, 123, 125, 58, 64, 40, 41}
             THEN One(Tok("punctuation", c, <<>>), p + 1, "")
           ELSE IF c = 34
             THEN One(Tok("string", 0,
                          SubSeq(input, p + 1, Run(p + 1, AnyChar \ {34}) - 1)),
                      Run(p + 1, AnyChar \ {34}) + 1, "")
           ELSE One(Tok("end", 0, <<>>), p, "SyntaxError")
      \* tokenize, from the character at p on
      RECURSIVE Tokens(_)
      Tokens(p0) ==
        LET p == Run(p0, Space)
            one == ReadNext(p)
            rest == Tokens(one.q)
        IN IF p > Len(input)
             THEN [tokens |-> <<Tok("end", Len(input), <<>>)>>, err |-> ""]
           ELSE IF one.err # "" THEN [tokens |-> <<>>, err |-> one.err]
           ELSE IF rest.err # "" THEN rest
           ELSE [tokens |-> <<one.tok>> \o rest.tokens, err |-> ""]
  IN Tokens(1)

\* TextDecoder._pre_parse with _pre_parse_array, _map, _seed, _reference
\* and _marker, from token i on: [i, lengths, err], lengths the dict
\* _lengths; SyntaxError() without its argument is a TypeError
RECURSIVE pre_parse(_, _, _)
pre_parse(tokens, i, lengths) ==
  LET cur == tokens[i]
      Is(j, char) == tokens[j].k = "punctuation" /\ tokens[j].v = char
      Res(j, ls, e) == [i |-> j, lengths |-> ls, err |-> e]
      Set(ls, offset, length) ==
        [k \in DOMAIN ls \cup {offset} |-> IF k = offset THEN length ELSE ls[k]]
      \* the while loops: the items up to the closing character
      RECURSIVE Items(_, _, _, _, _)
      Items(j, length, ls, close, paired) ==
        IF Is(j, close) THEN [i |-> j, length |-> length, lengths |-> ls, err |-> ""]
        ELSE LET a == pre_parse(tokens, j, ls)
                 b == IF ~paired THEN a
                      ELSE IF a.err # "" THEN a
                      ELSE IF ~Is(a.i, 58) THEN Res(a.i, a.lengths, "SyntaxError")
                      ELSE pre_parse(tokens, a.i + 1, a.lengths)
             IN IF b.err # ""
                  THEN [i |-> b.i, length |-> length + 1, lengths |-> b.lengths,
                        err |-> b.err]
                ELSE IF Is(b.i, 44)
                  THEN Items(b.i + 1, length + 1, b.lengths, close, paired)
                ELSE [i |-> b.i, length |-> length + 1, lengths |-> b.lengths,
                      err |-> ""]
      Closed(r, close) ==
        IF r.err # "" THEN Res(r.i, r.lengths, r.err)
        ELSE IF ~Is(r.i, close) THEN Res(r.i, r.lengths, "SyntaxError")
        ELSE Res(r.i + 1, Set(r.lengths, i, r.length), "")
      header == pre_parse(tokens, i + 1, lengths)
  IN IF cur.k \in {"number", "string", "blob", "id"} THEN Res(i + 1, lengths, "")
     ELSE IF cur.k = "reference"
       THEN IF Is(i + 1, 58) THEN pre_parse(tokens, i + 2, lengths)
            ELSE Res(i + 1, lengths, "")
     ELSE IF Is(i, 91) THEN Closed(Items(i + 1, 0, lengths, 93, FALSE), 93)
     ELSE IF Is(i, 123) THEN Closed(Items(i + 1, 0, lengths, 125, TRUE), 125)
     ELSE IF Is(i, 64)
       THEN IF header.err # "" THEN header
            ELSE IF Is(header.i, 40)
              THEN Closed(Items(header.i + 1, 0, header.lengths, 41, TRUE), 41)
            ELSE Res(header.i, Set(header.lengths, i, 0), "")
     ELSE IF cur.k = "marker" THEN Res(i + 1, lengths, "")
     ELSE Res(i, lengths, "TypeError")

\* TextDecoder._parse with _parse_array, _map, _seed, _reference and
\* _marker, from token i on: [i, calls, err], calls the visitor calls made;
\* the name of a reference is the ref key, here the number whose base-256
\* digits are the characters of the name
RECURSIVE parse(_, _, _, _)
parse(tokens, i, ref_name, lengths) ==
  LET cur == tokens[i]
      Is(j, char) == tokens[j].k = "punctuation" /\ tokens[j].v = char
      Res(j, cs, e) == [i |-> j, calls |-> cs, err |-> e]
      RECURSIVE Key(_)
      Key(name) == IF name = <<>> THEN 0 ELSE Key(Front(name)) * 256 + Last(name)
      \* the while loops: the items up to the closing character
      RECURSIVE Items(_, _, _, _)
      Items(j, cs, close, paired) ==
        IF Is(j, close) THEN Res(j, cs, "")
        ELSE LET a == parse(tokens, j, NoRef, lengths)
                 b == IF ~paired \/ a.err # "" THEN a
                      ELSE IF ~Is(a.i, 58) THEN Res(a.i, a.calls, "SyntaxError")
                      ELSE LET v == parse(tokens, a.i + 1, NoRef, lengths)
                           IN Res(v.i, a.calls \o v.calls, v.err)
             IN IF b.err # "" THEN Res(b.i, cs \o b.calls, b.err)
                ELSE IF Is(b.i, 44) THEN Items(b.i + 1, cs \o b.calls, close, paired)
                ELSE Res(b.i, cs \o b.calls, "")
      Closed(r, close) ==
        IF r.err # "" THEN r
        ELSE IF ~Is(r.i, close) THEN Res(r.i, r.calls, "SyntaxError")
        ELSE Res(r.i + 1, r.calls, "")
      begin_seed == <<Call("on_begin_seed", lengths[i], ref_name)>>
      header == parse(tokens, i + 1, NoRef, lengths)
  IN IF cur.k \in {"number", "string", "blob", "id"}
       THEN IF ref_name # NoRef THEN Res(i, <<>>, "SyntaxError")
            ELSE Res(i + 1,
                     <<CASE cur.k = "number" -> Call("on_int", cur.v, NoRef)
                         [] cur.k = "string" ->
                              Call("on_string", Utf8Encode(cur.s), NoRef)
                         [] cur.k = "blob" -> Call("on_blob", cur.s, NoRef)
                         [] cur.k = "id" -> Call("on_id", cur.s, NoRef)>>, "")
     ELSE IF cur.k = "reference"
       THEN IF Is(i + 1, 58) THEN parse(tokens, i + 2, Key(cur.s), lengths)
            ELSE Res(i + 1, <<Call("on_get_ref", Key(cur.s), NoRef)>>, "")
     ELSE IF Is(i, 91)
       THEN Closed(Items(i + 1, <<Call("on_begin_array", lengths[i], ref_name)>>,
                         93, FALSE), 93)
     ELSE IF Is(i, 123)
       THEN Closed(Items(i + 1, <<Call("on_begin_map", lengths[i], ref_name)>>,
                         125, TRUE), 125)
     ELSE IF Is(i, 64)
       THEN IF header.err # "" THEN Res(header.i, begin_seed \o header.calls, header.err)
            ELSE IF Is(header.i, 40)
              THEN Closed(Items(header.i + 1, begin_seed \o header.calls, 41, TRUE), 41)
            ELSE Res(header.i, begin_seed \o header.calls, "")
     ELSE IF cur.k = "marker"
       THEN Res(i + 1, <<Call("on_singleton",
                               IF cur.s = <<110>> THEN Null
                               ELSE Bool(cur.s = <<116>>), NoRef)>>, "")
     ELSE Res(i, <<>>, "SyntaxError")

\* decode_text(input): TextDecoder(builder).decode(input), then
\* builder.result with its two asserts: [b, err], b the builder
decode_text(input) ==
  LET RECURSIVE Visit(_, _)
      Visit(b, calls) ==
        IF calls = <<>> \/ b.err # "" THEN b
        ELSE Visit(ObjectBuilder_visit(b, Head(calls)), Tail(calls))
      \* return builder.result
      Result(p, b) ==
        IF b.err # "" THEN [b |-> b, err |-> b.err]
        ELSE IF p.err # "" THEN [b |-> b, err |-> p.err]
        ELSE IF ~has_result(b) \/ b.value_stack # <<Null>>
          THEN [b |-> b, err |-> "AssertionError"]
        ELSE [b |-> b, err |-> ""]
      \* self._parse(tokens) on the visitor
      Parsed(p) == Result(p, Visit(NewBuilder, p.calls))
      \* self._pre_parse(tokens), then tokens.rewind
      PreParsed(t, pre) ==
        IF pre.err # "" THEN [b |-> NewBuilder, err |-> pre.err]
        ELSE Parsed(parse(t.tokens, 1, NoRef, pre.lengths))
      \* TokenStream(list(Tokenizer(input).tokenize()))
      Tokenized(t) ==
        IF t.err # "" THEN [b |-> NewBuilder, err |-> t.err]
        ELSE PreParsed(t, pre_parse(t.tokens, 1, <<>>))
  IN Tokenized(tokenize(input))

(***************************************************************************)
(* The values handed to encode_binary.                                     *)
(***************************************************************************)
\* all sequences over S of length at most n
SeqsUpTo(S, n) == UNION {[1..k -> S] : k \in 0..n}

\* the 16 bytes of the id whose integer value is byte * 256^(16 - place)
IdWith(place, byte) == IdV([i \in 1..16 |-> IF i = place THEN byte ELSE 0])

\* the id whose integer value is 256^k - 1: its low k bytes are 0xff
IdBelow(k) == IdV([i \in 1..16 |-> IF i > 16 - k THEN 255 ELSE 0])

\* the ids handed to encode_binary on their own: one byte set at any
\* place, and the last value of every width
Ids ==
  {IdWith(place, byte) : place \in 1..16, byte \in {1, 128}}
  \cup {IdBelow(k) : k \in {0, 1, 2, 3, 4, 7, 8, 9, 16}}

\* 0.0 and 1.5 as binary64
Floats == {FloatV(Zeros(8)), FloatV(Zeros(6) \o <<248, 63>>)}

Atoms ==
  {Null, Bool(TRUE), Bool(FALSE)}
  \cup {IntV(n) : n \in {0, 1, 5, 6, -1, -3, -4, 127, 128, -128, -129, 16511, 16512}}
  \cup {StrV(cps) : cps \in {<<>>, <<97>>, <<233>>, <<97, 233>>,
                             Repeat(97, 7), Repeat(97, 8)}}
  \cup {BlobV(bs) : bs \in {<<>>, <<7>>, <<7, 200>>}}
  \cup {IdWith(16, 1), IdWith(14, 1), IdWith(12, 1), IdWith(8, 1), IdWith(1, 255)}
  \cup Floats

\* the first and the last number of every varint length up to five groups
VarintEdges ==
  {127, 128, 129, 16383, 16384, 16511, 16512, 16513, 2097151, 2097152,
   2113663, 2113664, 2113665, 268435455, 268435456, 270549119, 270549120,
   2147483646}

\* the integers handed to encode_binary on their own
Ints ==
  (-MaxSmallInt..MaxSmallInt)
  \cup VarintEdges \cup {-(n + 1) : n \in VarintEdges}

\* what a generated cell may hold at a child position, in a heap of n cells
ChildrenOf(n) == {IntV(1)} \cup {Ref(i) : i \in 1..n}

CellsOf(n) ==
  {ArrayCell(its) : its \in SeqsUpTo(ChildrenOf(n), MaxLen)}
  \cup {StructCell(Linear(Len(its)), its) : its \in SeqsUpTo(ChildrenOf(n), MaxLen)}
  \cup {MapCell(its) : its \in {<<>>} \cup [1..2 -> ChildrenOf(n)]}
  \cup {SeedCell(h, its) : h \in ChildrenOf(n),
                           its \in {<<>>} \cup [1..2 -> ChildrenOf(n)]}

\* a dict key of the input is hashable: an atom other than a bytearray, a
\* Seed, a Struct, or a tuple of such atoms
InputKey(heap, key) ==
  /\ key.t # "blob"
  /\ IsRef(key) =>
       \/ heap[key.v].kind \in {"seed", "struct"}
       \/ /\ heap[key.v].kind = "array"
          /\ \A i \in 1..Len(heap[key.v].items) : ~IsRef(heap[key.v].items[i])

\* the cells a cell refers to
RefsOf(cell) ==
  {cell.items[i].v : i \in {j \in 1..Len(cell.items) : IsRef(cell.items[j])}}
  \cup (IF IsRef(cell.header) THEN {cell.header.v} ELSE {})

\* every cell is reached from cell 1: cell 1 refers to every other cell or
\* to one that does
Connected(heap) ==
  \A i \in 2..Len(heap) :
    \/ i \in RefsOf(heap[1])
    \/ \E j \in RefsOf(heap[1]) \ {1} : i \in RefsOf(heap[j])

WellFormed(heap) ==
  /\ Connected(heap)
  /\ \A i \in 1..Len(heap) :
       heap[i].kind \in {"map", "seed"} =>
         \A j \in 1..(Len(heap[i].items) \div 2) :
           InputKey(heap, heap[i].items[2 * j - 1])

\* the object graphs of n cells; the value is the object of cell 1
Graphs(n) == {heap \in [1..n -> CellsOf(n)] : WellFormed(heap)}

\* the strings handed to encode_binary on their own: of every length,
\* and two whose last character takes two bytes
Strings ==
  {StrV(Repeat(97, n)) : n \in 0..MaxStrLen}
  \cup {StrV(Repeat(97, 5) \o <<233>>), StrV(Repeat(97, 6) \o <<233>>)}

\* the entries 1: 0, 2: 0, ..., n: 0 of a map or of the fields of a seed
Entries(n) == [i \in 1..(2 * n) |-> IF i % 2 = 1 THEN IntV((i + 1) \div 2) ELSE IntV(0)]

\* an array, a map and a seed of every number of entries
Lists ==
  {<<ArrayCell([i \in 1..n |-> IntV(i)])>> : n \in 0..MaxEntries}
  \cup {<<MapCell(Entries(n))>> : n \in 0..MaxEntries}
  \cup {<<SeedCell(IntV(0), Entries(n))>> : n \in 0..MaxEntries}

\* tags on both sides of the one-nibble, two-nibble and three-nibble
\* numbers
TagAlphabet == {0, 1, 2, 7, 8, 9, 71, 72}

NonDecreasing(tags) == \A i \in 1..(Len(tags) - 1) : tags[i] <= tags[i + 1]

\* the tag vectors of the structs handed to encode_binary on their own
TagVectors ==
  {tags \in SeqsUpTo(TagAlphabet, MaxTags) : NonDecreasing(tags)}
  \cup {Linear(n) : n \in 0..8}
  \cup {Repeat(0, n) : n \in 1..MaxRun}
  \cup {<<0, 0, 0, 5, 5>>}

\* a struct of each tag vector; every field holds the integer 3
Structs == {<<StructCell(tags, Repeat(IntV(3), Len(tags)))>> : tags \in TagVectors}

\* a list of two atoms
Pairs == {<<ArrayCell(<<x, y>>)>> : x, y \in Atoms}

(***************************************************************************)
(* The byte streams handed to decode_binary that no encoder wrote: every   *)
(* byte in opcode position, followed by four zero bytes, varints, floats,  *)
(* long forms and tag streams written by hand, and the streams over a few  *)
(* opcodes.                                                                *)
(***************************************************************************)
OpcodeProbes == {<<op>> \o Zeros(4) : op \in 0..255}

\* a positive int whose varint has up to three groups, written by hand
VarintProbes ==
  {<<INT_P_TAG>> \o gs \o <<last>> :
     gs \in SeqsUpTo({128, 129, 255}, 2), last \in {0, 1, 127}}

\* 1.5 as Float32, 1.5 as Float64, and an array that holds 1.5
FloatProbes ==
  {<<FLOAT_32_TAG, 0, 0, 192, 63>>,
   <<FLOAT_64_TAG>> \o Zeros(6) \o <<248, 63>>,
   <<33, FLOAT_32_TAG, 0, 0, 192, 63>>}

\* strings, arrays, maps and seeds short enough for the short form,
\* written in the long form
LongFormProbes ==
  {<<DEFAULT_STRING_N_TAG, n>> \o Repeat(97, n) : n \in 0..7}
  \cup {<<ARRAY_N_TAG, n>> \o Zeros(n) : n \in 0..3}
  \cup {<<MAP_N_TAG, n>> \o SubSeq(<<1, 0, 2, 0, 3, 0>>, 1, 2 * n) : n \in 0..3}
  \cup {<<SEED_N_TAG, n, 0>> \o SubSeq(<<1, 0, 2, 0, 3, 0>>, 1, 2 * n) : n \in 0..3}

\* a struct of three fields whose tag stream is the nibbles 0, 0, 2 and
\* the pad, and one whose tag stream is the nibbles 0, 0, 3 and the pad
StructProbes ==
  {<<STRUCT_N_TAG, 3, 0, 32, 3, 3, 3>>, <<STRUCT_N_TAG, 3, 0, 48, 3, 3, 3>>}

\* int 0, an unassigned opcode, array of 1 and 2, ADD_REF, GET_REF
RawAlphabet == {0, 6, 33, 34, 160, 161}

RawStreams ==
  OpcodeProbes \cup VarintProbes \cup FloatProbes \cup LongFormProbes
  \cup StructProbes
  \cup (SeqsUpTo(RawAlphabet, MaxRawLen) \ {<<>>})

\* the bytes that may follow a complete encoding in the input
Tails == {<<0>>, <<255>>, <<33>>, <<161, 0>>}

\* how the caller makes the input of decode_binary from the bytes b it
\* holds: the first cut bytes of b, then tail
Feeds(b, probing) ==
  {[cut |-> Len(b), tail |-> <<>>]}
  \cup (IF probing /\ Len(b) <= MaxProbeLen
          THEN {[cut |-> Len(b), tail |-> tl] : tl \in Tails}
               \cup {[cut |-> c, tail |-> <<>>] : c \in 0..(Len(b) - 1)}
          ELSE {})

(***************************************************************************)
(* The state.                                                              *)
(*   heap, root   the value V handed to encode_binary                      *)
(*   job          "value": V is encoded, decoded and encoded again;        *)
(*                "raw": decode_binary is handed the stream ret            *)
(*   stage        the library call that is running or ran last:            *)
(*                "encode", "decode", "reencode"                           *)
(*   pc           where that call is: "tree", "shared" (the tree decoder   *)
(*                raised SharedStructureDetected), "graph", "run",         *)
(*                "returned", "raised" (an exception reached the caller)   *)
(*   trav, enc    the traverser and the encoder of the running encode      *)
(*   written      the bytes the running encoder has written (history)      *)
(*   ret, ret2    what the first and the second encode_binary returned     *)
(*   feed, dec, bld  the input of decode_binary as made from ret, its      *)
(*                decoder and its builder                                  *)
(*   value        what decode_binary returned                              *)
(*   err          the exception that reached the caller                    *)
(***************************************************************************)
VARIABLES heap, root, job, stage, pc, trav, enc, written, ret, ret2,
          feed, dec, bld, value, err

vars == <<heap, root, job, stage, pc, trav, enc, written, ret, ret2,
          feed, dec, bld, value, err>>

Values ==
  {[heap |-> <<>>, root |-> a] :
     a \in Atoms \cup {IntV(n) : n \in Ints} \cup Ids \cup Strings}
  \cup {[heap |-> h, root |-> Ref(1)] :
          h \in Pairs \cup Lists \cup Structs \cup UNION {Graphs(n) : n \in 1..MaxCells}}

NoFeed == [cut |-> 0, tail |-> <<>>]

\* encode_binary(V) has been called and made its ObjectTreeDecoder, or
\* the caller holds a stream of bytes
Init ==
  /\ \/ /\ job = "value"
        /\ \E V \in Values : heap = V.heap /\ root = V.root
        /\ pc = "tree"
        /\ ret = <<>>
     \/ /\ job = "raw"
        /\ heap = <<>> /\ root = Null
        /\ pc = "returned"
        /\ ret \in RawStreams
  /\ stage = "encode"
  /\ trav = IF job = "value" THEN NewTreeDecoder(heap, root)
            ELSE [NewTreeDecoder(heap, root) EXCEPT !.todo = <<>>]
  /\ enc = NewEncoder(<<>>)
  /\ written = <<>>
  /\ ret2 = <<>>
  /\ feed = NoFeed
  /\ dec = NewDecoder(<<>>)
  /\ bld = NewBuilder
  /\ value = Null
  /\ err = ""

Encoding == stage \in {"encode", "reencode"}

\* the value the running encode_binary was called with
Subject == IF stage = "encode" THEN root ELSE value

\* one call of _decode with the visitor call it makes on the encoder;
\* SharedStructureDetected goes to encode_binary, anything else to the
\* caller
TraverseStep ==
  /\ Encoding /\ pc \in {"tree", "graph"} /\ trav.todo # <<>>
  /\ LET r == decode(trav)
         e == BinaryEncoder_visit(enc, r.call)
     IN IF r.t.err = "SharedStructureDetected"
          THEN /\ pc' = "shared"
               /\ trav' = r.t
               /\ UNCHANGED <<enc, written, err>>
        ELSE IF r.t.err # ""
          THEN /\ pc' = "raised"
               /\ err' = r.t.err
               /\ trav' = r.t
               /\ UNCHANGED <<enc, written>>
        ELSE /\ trav' = r.t
             /\ enc' = e
             /\ written' = written \o Drop(e.out, Len(enc.out))
             /\ pc' = IF e.err # "" THEN "raised" ELSE pc
             /\ err' = e.err
  /\ UNCHANGED <<heap, root, job, stage, ret, ret2, feed, dec, bld, value>>

\* a fallback that goes on writing to the buffer of the tree attempt
SameBuffer(old) == old

\* the buffer the fallback of encode_binary writes to: a new BytesIO
FallbackBuffer(old) == <<>>

\* except SharedStructureDetected: _encode_binary_with_decoder with an
\* ObjectGraphDecoder, whose decode starts with _preprocess
EncodeFallback ==
  /\ Encoding /\ pc = "shared"
  /\ pc' = "graph"
  /\ enc' = NewEncoder(FallbackBuffer(enc.out))
  /\ written' = <<>>
  /\ trav' = NewGraphDecoder(trav.heap, Subject)
  /\ UNCHANGED <<heap, root, job, stage, ret, ret2, feed, dec, bld, value, err>>

\* return out.getvalue()
EncodeReturn ==
  /\ Encoding /\ pc \in {"tree", "graph"} /\ trav.todo = <<>>
  /\ pc' = "returned"
  /\ IF stage = "encode" THEN ret' = enc.out /\ ret2' = ret2
     ELSE ret2' = enc.out /\ ret' = ret
  /\ UNCHANGED <<heap, root, job, stage, trav, enc, written, feed, dec, bld,
                 value, err>>

Input(b, f) == Take(b, f.cut) \o f.tail

\* decode_binary(input): the builder, the decoder and its first _advance
DecodeStart ==
  /\ stage = "encode" /\ pc = "returned"
  /\ \E f \in Feeds(ret, job = "value") :
       /\ feed' = f
       /\ dec' = NewDecoder(Input(ret, f))
  /\ bld' = NewBuilder
  /\ stage' = "decode"
  /\ pc' = "run"
  /\ UNCHANGED <<heap, root, job, trav, enc, written, ret, ret2, value, err>>

\* while not builder.has_result: decoder.decode_next(ref_key=None)
DecodeNext ==
  /\ stage = "decode" /\ pc = "run" /\ ~has_result(bld)
  /\ LET r == decode_next(dec, NoRef)
         b == ObjectBuilder_visit(bld, r.call)
     IN IF r.d.err # ""
          THEN /\ dec' = r.d
               /\ pc' = "raised"
               /\ err' = r.d.err
               /\ bld' = bld
          ELSE /\ dec' = r.d
               /\ bld' = b
               /\ pc' = IF b.err # "" THEN "raised" ELSE pc
               /\ err' = b.err
  /\ UNCHANGED <<heap, root, job, stage, trav, enc, written, ret, ret2, feed,
                 value>>

\* return builder.result, with the two asserts of the property
DecodeReturn ==
  /\ stage = "decode" /\ pc = "run" /\ has_result(bld)
  /\ IF bld.value_stack = <<Null>>
       THEN pc' = "returned" /\ value' = bld.result /\ err' = err
       ELSE pc' = "raised" /\ err' = "AssertionError" /\ value' = value
  /\ UNCHANGED <<heap, root, job, stage, trav, enc, written, ret, ret2, feed,
                 dec, bld>>

Exact(f, b) == f.cut = Len(b) /\ f.tail = <<>>

\* encode_binary on the decoded value
ReencodeStart ==
  /\ stage = "decode" /\ pc = "returned" /\ job = "value" /\ Exact(feed, ret)
  /\ stage' = "reencode"
  /\ pc' = "tree"
  /\ trav' = NewTreeDecoder(bld.heap, value)
  /\ enc' = NewEncoder(<<>>)
  /\ written' = <<>>
  /\ UNCHANGED <<heap, root, job, ret, ret2, feed, dec, bld, value, err>>

Next ==
  \/ TraverseStep
  \/ EncodeFallback
  \/ EncodeReturn
  \/ DecodeStart
  \/ DecodeNext
  \/ DecodeReturn
  \/ ReencodeStart

Spec == Init /\ [][Next]_vars

(***************************************************************************)
(* The float encoding on its own.  No traverser reports a float, so        *)
(* BinaryEncoder.on_float and the static _encode_float are reached only    *)
(* by a direct call, as is_single_precision of test_float.py makes it.     *)
(* The call runs on a float held in root; stage names the method called.   *)
(***************************************************************************)
\* the binary64 of the given sign, biased exponent, high 23 and low 29
\* bits of the significand
Double(sign, exponent, high, low) ==
  FloatV(<<low % 256, (low \div 256) % 256, (low \div 65536) % 256,
           (high % 8) * 32 + (low \div 16777216),
           (high \div 8) % 256, (high \div 2048) % 256,
           (exponent % 16) * 16 + (high \div 524288),
           sign * 128 + (exponent \div 16)>>)

\* the floats handed to the encoder: both signs; the biased exponents of
\* a subnormal, the least normal, -127, -126, -1, 0, 19, 20, 24, 127, 128,
\* the greatest finite one, and infinity or NaN; significands with the
\* first, the last and all bits set on either side of bit 29
Doubles ==
  {Double(sign, exponent, high, low) :
     sign \in {0, 1},
     exponent \in {0, 1, 896, 897, 1022, 1023, 1042, 1043, 1047, 1150, 1151,
                   2046, 2047},
     high \in {0, 1, 4194304, 8388607},
     low \in {0, 1, 268435456, 536870911}}

FloatInit ==
  /\ job = "float"
  /\ heap = <<>>
  /\ root \in Doubles
  /\ stage = "call"
  /\ pc = "run"
  /\ trav = [NewTreeDecoder(<<>>, root) EXCEPT !.todo = <<>>]
  /\ enc = NewEncoder(<<>>)
  /\ written = <<>>
  /\ ret = <<>>
  /\ ret2 = <<>>
  /\ feed = NoFeed
  /\ dec = NewDecoder(<<>>)
  /\ bld = NewBuilder
  /\ value = Null
  /\ err = ""

\* BinaryEncoder._encode_float(value)
EncodeFloatCall ==
  /\ job = "float" /\ pc = "run"
  /\ stage' = "_encode_float"
  /\ pc' = "returned"
  /\ ret' = encode_float(root.s)
  /\ UNCHANGED <<heap, root, job, trav, enc, written, ret2, feed, dec, bld,
                 value, err>>

\* BinaryEncoder(out).on_float(value); out.getvalue()
OnFloatCall ==
  /\ job = "float" /\ pc = "run"
  /\ stage' = "on_float"
  /\ pc' = "returned"
  /\ enc' = BinaryEncoder_on_float(enc, root.s)
  /\ written' = enc'.out
  /\ ret' = enc'.out
  /\ UNCHANGED <<heap, root, job, trav, ret2, feed, dec, bld, value, err>>

FloatNext ==
  \/ EncodeFloatCall
  \/ OnFloatCall

FloatSpec == FloatInit /\ [][FloatNext]_vars

(***************************************************************************)
(* The clone: ObjectGraphDecoder(builder).decode(V) on an ObjectBuilder,   *)
(* with no bytes in between, and builder.result (test_binary_clone).       *)
(***************************************************************************)
\* builder = ObjectBuilder(); decoder = ObjectGraphDecoder(builder);
\* decoder.decode(value) has run its _preprocess
CloneInit ==
  /\ job = "clone"
  /\ \E V \in Values : heap = V.heap /\ root = V.root
  /\ stage = "clone"
  /\ pc = "graph"
  /\ trav = NewGraphDecoder(heap, root)
  /\ enc = NewEncoder(<<>>)
  /\ written = <<>>
  /\ ret = <<>>
  /\ ret2 = <<>>
  /\ feed = NoFeed
  /\ dec = NewDecoder(<<>>)
  /\ bld = NewBuilder
  /\ value = Null
  /\ err = ""

\* one call of _decode with the visitor call it makes on the builder
CloneStep ==
  /\ job = "clone" /\ pc = "graph" /\ trav.todo # <<>>
  /\ LET r == decode(trav)
         b == ObjectBuilder_visit(bld, r.call)
     IN IF r.t.err # ""
          THEN /\ pc' = "raised"
               /\ err' = r.t.err
               /\ trav' = r.t
               /\ bld' = bld
          ELSE /\ trav' = r.t
               /\ bld' = b
               /\ pc' = IF b.err # "" THEN "raised" ELSE pc
               /\ err' = b.err
  /\ UNCHANGED <<heap, root, job, stage, enc, written, ret, ret2, feed, dec,
                 value>>

\* builder.result, with the two asserts of the property
CloneReturn ==
  /\ job = "clone" /\ pc = "graph" /\ trav.todo = <<>>
  /\ IF has_result(bld) /\ bld.value_stack = <<Null>>
       THEN pc' = "returned" /\ value' = bld.result /\ err' = err
       ELSE pc' = "raised" /\ err' = "AssertionError" /\ value' = value
  /\ UNCHANGED <<heap, root, job, stage, trav, enc, written, ret, ret2, feed,
                 dec, bld>>

CloneNext ==
  \/ CloneStep
  \/ CloneReturn

CloneSpec == CloneInit /\ [][CloneNext]_vars

(***************************************************************************)
(* The text round trip: encode_text(V), then decode_text on the text it    *)
(* returned.  stage names the call: "encode_text", "decode_text"; enc is   *)
(* the TextEncoder, written what it wrote to out, ret the text returned,   *)
(* bld the builder of decode_text and value what decode_text returned.     *)
(***************************************************************************)
\* the values handed to encode_text: those handed to encode_binary, and
\* strings that hold a double quote or a space.  Left out are the values
\* in which the header of a seed is a struct that holds a composite: their
\* traversal does not end, and how deep it gets before the stray field
\* texts of the struct make the TextEncoder raise is beyond MaxDepth
TextValues ==
  LET HoldsComposite(cell) == \E i \in 1..Len(cell.items) : IsRef(cell.items[i])
      StructHeader(h) ==
        \E i \in 1..Len(h) :
          /\ h[i].kind = "seed" /\ IsRef(h[i].header)
          /\ h[h[i].header.v].kind = "struct"
          /\ HoldsComposite(h[h[i].header.v])
  IN {V \in Values : ~StructHeader(V.heap)}
     \cup {[heap |-> <<>>, root |-> StrV(cps)] :
             cps \in {<<34>>, <<97, 34, 98>>, <<97, 34, 49>>, <<32, 97, 32>>}}

TextInit ==
  /\ job = "text"
  /\ \E V \in TextValues : heap = V.heap /\ root = V.root
  /\ stage = "encode_text"
  /\ pc = "tree"
  /\ trav = NewTreeDecoder(heap, root)
  /\ enc = NewTextEncoder
  /\ written = <<>>
  /\ ret = <<>>
  /\ ret2 = <<>>
  /\ feed = NoFeed
  /\ dec = NewDecoder(<<>>)
  /\ bld = NewBuilder
  /\ value = Null
  /\ err = ""

\* one call of _decode with the visitor call it makes on the TextEncoder;
\* SharedStructureDetected goes to encode_text, anything else to the
\* caller
TextTraverseStep ==
  /\ stage = "encode_text" /\ pc \in {"tree", "graph"} /\ trav.todo # <<>>
  /\ LET r == decode(trav)
         e == TextEncoder_visit(enc, r.call)
     IN IF r.t.err = "SharedStructureDetected"
          THEN /\ pc' = "shared"
               /\ trav' = r.t
               /\ UNCHANGED <<enc, written, err>>
        ELSE IF r.t.err # ""
          THEN /\ pc' = "raised"
               /\ err' = r.t.err
               /\ trav' = r.t
               /\ UNCHANGED <<enc, written>>
        ELSE /\ trav' = r.t
             /\ enc' = e
             /\ written' = e.out
             /\ pc' = IF e.err # "" THEN "raised" ELSE pc
             /\ err' = e.err
  /\ UNCHANGED <<heap, root, job, stage, ret, ret2, feed, dec, bld, value>>

\* except SharedStructureDetected: _encode_text_with_decoder with an
\* ObjectGraphDecoder, a new StringIO and a new TextEncoder
TextFallback ==
  /\ stage = "encode_text" /\ pc = "shared"
  /\ pc' = "graph"
  /\ enc' = NewTextEncoder
  /\ written' = <<>>
  /\ trav' = NewGraphDecoder(trav.heap, root)
  /\ UNCHANGED <<heap, root, job, stage, ret, ret2, feed, dec, bld, value, err>>

\* return out.getvalue()
TextReturn ==
  /\ stage = "encode_text" /\ pc \in {"tree", "graph"} /\ trav.todo = <<>>
  /\ pc' = "returned"
  /\ ret' = enc.out
  /\ UNCHANGED <<heap, root, job, stage, trav, enc, written, ret2, feed, dec,
                 bld, value, err>>

\* decode_text on the text encode_text returned
DecodeText ==
  /\ stage = "encode_text" /\ pc = "returned"
  /\ stage' = "decode_text"
  /\ LET Came(r) ==
           /\ bld' = r.b
           /\ err' = r.err
           /\ pc' = IF r.err = "" THEN "returned" ELSE "raised"
           /\ value' = IF r.err = "" THEN r.b.result ELSE value
     IN Came(decode_text(ret))
  /\ UNCHANGED <<heap, root, job, trav, enc, written, ret, ret2, feed, dec>>

TextNext ==
  \/ TextTraverseStep
  \/ TextFallback
  \/ TextReturn
  \/ DecodeText

TextSpec == TextInit /\ [][TextNext]_vars

(***************************************************************************)
(* decode_binary as a function of its input: what the loop                 *)
(* "while not builder.has_result: decoder.decode_next(ref_key=None)"       *)
(* and "return builder.result" come to.                                    *)
(***************************************************************************)
Outcome(ok, val, objects, exc) ==
  [returned |-> ok, value |-> val, heap |-> objects, err |-> exc]

RECURSIVE DecodeLoop(_, _)
DecodeLoop(d, b) ==
  IF has_result(b)
    THEN IF b.value_stack = <<Null>> THEN Outcome(TRUE, b.result, b.heap, "")
         ELSE Outcome(FALSE, Null, <<>>, "AssertionError")
  ELSE LET r == decode_next(d, NoRef)
           b1 == ObjectBuilder_visit(b, r.call)
       IN IF r.d.err # "" THEN Outcome(FALSE, Null, <<>>, r.d.err)
          ELSE IF b1.err # "" THEN Outcome(FALSE, Null, <<>>, b1.err)
          ELSE DecodeLoop(r.d, b1)

decode_binary(input) == DecodeLoop(NewDecoder(input), NewBuilder)

(***************************************************************************)
(* What the properties below speak of.                                     *)
(***************************************************************************)
\* the running call has ended: it returned or an exception reached the
\* caller
Terminal == pc \in {"returned", "raised"}

\* structural equality of value a of heap ha and value b of heap hb, as
\* is_structurally_equal of test_codec.py co-traverses them: atoms by
\* value, arrays and structs position by position, seeds by header and
\* fields, maps and fields by a matching entry for every entry; a pair of
\* objects under comparison further up counts as equal
RECURSIVE is_structurally_equal(_, _, _, _, _)
is_structurally_equal(ha, a, hb, b, assumed_equivs) ==
  IF ~IsRef(a) \/ ~IsRef(b) THEN a = b
  ELSE IF <<a.v, b.v>> \in assumed_equivs THEN TRUE
  ELSE LET ca == ha[a.v]
           cb == hb[b.v]
           equivs == assumed_equivs \cup {<<a.v, b.v>>}
       IN /\ ca.kind = cb.kind
          /\ Len(ca.items) = Len(cb.items)
          /\ ca.tags = cb.tags
          /\ is_structurally_equal(ha, ca.header, hb, cb.header, equivs)
          /\ IF ca.kind \in {"map", "seed"}
               THEN \A i \in 1..(Len(ca.items) \div 2) :
                      \E j \in 1..(Len(cb.items) \div 2) :
                        /\ is_structurally_equal(ha, ca.items[2 * i - 1],
                                                 hb, cb.items[2 * j - 1], equivs)
                        /\ is_structurally_equal(ha, ca.items[2 * i],
                                                 hb, cb.items[2 * j], equivs)
               ELSE \A i \in 1..Len(ca.items) :
                      is_structurally_equal(ha, ca.items[i], hb, cb.items[i],
                                            equivs)

\* the number of child positions of the value that hold object id: array
\* elements, map keys and values, seed headers, seed field keys and
\* values, struct field values
RECURSIVE CountIn(_, _)
CountIn(values, id) ==
  IF values = <<>> THEN 0
  ELSE (IF Head(values) = Ref(id) THEN 1 ELSE 0) + CountIn(Tail(values), id)

RECURSIVE Occurrences(_, _, _)
Occurrences(h, id, upto) ==
  IF upto = 0 THEN 0
  ELSE CountIn(<<h[upto].header>> \o h[upto].items, id)
       + Occurrences(h, id, upto - 1)

\* some composite occurs at more than one child position
HasRepeatedComposite(h) == \E id \in 1..Len(h) : Occurrences(h, id, Len(h)) > 1

\* strictly tree-shaped: no object is a child twice and the value itself
\* is nobody's child
IsTreeShaped(h) ==
  /\ \A id \in 1..Len(h) : Occurrences(h, id, Len(h)) <= 1
  /\ h # <<>> => Occurrences(h, 1, Len(h)) = 0

\* the instructions of a byte stream, as decode_next reads them one after
\* the other, each as the visitor call it makes
RECURSIVE Instructions(_)
Instructions(d) ==
  IF ~d.has_more THEN <<>>
  ELSE LET r == decode_next(d, NoRef)
       IN IF r.d.err # "" \/ r.call.op = "on_invalid_instruction"
            THEN <<r.call>>
            ELSE <<r.call>> \o Instructions(r.d)

HasGetRef(bytes) ==
  \E i \in DOMAIN Instructions(NewDecoder(bytes)) :
    Instructions(NewDecoder(bytes))[i].op = "on_get_ref"

HasAddRef(bytes) ==
  \E i \in DOMAIN Instructions(NewDecoder(bytes)) :
    Instructions(NewDecoder(bytes))[i].ref # NoRef

(***************************************************************************)
(* C1: for every value V, decode_binary(encode_binary(V)) returns a value  *)
(* structurally equal to V: encode_binary(V) returns, decode_binary of     *)
(* the bytes it returned returns, and what it returns is structurally      *)
(* equal to V.                                                             *)
(***************************************************************************)
C1_RoundTrip ==
  job = "value" =>
    /\ stage = "encode" => pc # "raised"
    /\ stage = "decode" /\ Exact(feed, ret) => pc # "raised"
    /\ stage = "decode" /\ Exact(feed, ret) /\ pc = "returned" =>
         is_structurally_equal(heap, root, bld.heap, value, {})

\* a float was handed to encode_binary and the call ended in an exception
C1_FloatRaises ==
  /\ job = "value" /\ stage = "encode" /\ pc = "raised"
  /\ root \in Floats /\ err = "AttributeError"

(***************************************************************************)
(* C2: the bytes encode_binary(V) returns hold a GET_REF instruction       *)
(* whenever some composite occurs at more than one child position of V,    *)
(* the seed header included, and hold neither GET_REF nor ADD_REF when V   *)
(* is strictly tree-shaped.                                                *)
(***************************************************************************)
C2_GetRefIffShared ==
  job = "value" /\ stage = "encode" /\ pc = "returned" =>
    /\ HasRepeatedComposite(heap) => HasGetRef(ret)
    /\ IsTreeShaped(heap) => ~HasGetRef(ret) /\ ~HasAddRef(ret)

\* encode_binary returned for a value whose object 2 is a seed header and
\* a child elsewhere too, and the bytes hold no GET_REF
C2_SharedHeaderWithoutGetRef ==
  /\ job = "value" /\ stage = "encode" /\ pc = "returned"
  /\ \E id \in 1..Len(heap) : heap[id].kind = "seed" /\ heap[id].header = Ref(2)
  /\ Occurrences(heap, 2, Len(heap)) > 1
  /\ ~HasGetRef(ret)

\* decode_binary is about to call decode_next
AtInstruction == stage = "decode" /\ pc = "run" /\ ~has_result(bld)

BeginCalls ==
  {"on_begin_array", "on_begin_map", "on_begin_seed", "on_begin_struct"}

\* the step of decode_binary at ADD_REF and a composite-begin, its step
\* at a GET_REF to a registered slot, and what any step of it does to the
\* registered slots
C3_RegisteredAtBegin ==
  LET r == decode_next(dec, NoRef)
      new == Len(bld.heap) + 1
  IN /\ AtInstruction /\ r.d.err = "" /\ r.call.op \in BeginCalls
        /\ r.call.ref # NoRef =>
          /\ Len(bld'.heap) = new
          /\ bld'.heap[new].items = <<>>
          /\ r.call.ref \in DOMAIN bld'.refs
          /\ bld'.refs[r.call.ref] = Ref(new)
     /\ AtInstruction /\ r.d.err = "" /\ r.call.op = "on_get_ref"
        /\ r.call.val \in DOMAIN bld.refs =>
          bld' = push(bld, bld.refs[r.call.val])
     /\ stage = "decode" /\ stage' = "decode" =>
          \A k \in DOMAIN bld.refs :
            k \in DOMAIN bld'.refs /\ bld'.refs[k] = bld.refs[k]

\* what decode_binary makes of a0 21 a1 00
C3_SelfContainingArray ==
  job = "raw" /\ ret = <<ADD_REF_TAG, 33, GET_REF_TAG, 0>> /\ stage = "decode"
  /\ Terminal =>
    /\ pc = "returned"
    /\ value = Ref(1)
    /\ bld.heap = <<ArrayCell(<<Ref(1)>>)>>

(***************************************************************************)
(* C3: at ADD_REF followed by a composite-begin the builder makes the      *)
(* composite, still empty, and registers that very object under the slot   *)
(* in the same step, before any child is decoded; a registered slot keeps  *)
(* its object from then on; and decode_binary of a0 21 a1 00 returns an    *)
(* array of one element that is the array itself.                          *)
(***************************************************************************)
C3_CyclePublishedAtBegin ==
  [][C3_RegisteredAtBegin]_vars /\ []C3_SelfContainingArray

\* decode_binary has returned the array that holds itself
C3_DecodedSelfContainingArray ==
  /\ job = "raw" /\ ret = <<ADD_REF_TAG, 33, GET_REF_TAG, 0>>
  /\ stage = "decode" /\ pc = "returned"
  /\ value = Ref(1) /\ bld.heap[1].items = <<Ref(1)>>
  /\ bld.refs[0] = Ref(1)

\* the step of encode_binary after the tree traversal raised
\* SharedStructureDetected
C4_Restart ==
  Encoding /\ pc = "shared" =>
    /\ pc' = "graph"
    /\ trav'.kind = "graph"
    /\ trav'.todo = <<Todo(Subject, 1)>>
    /\ enc'.out = <<>>

\* the exception the caller sees, and the bytes returned after a fallback
C4_Returned ==
  /\ err # "SharedStructureDetected"
  /\ Encoding /\ pc = "returned" /\ trav.kind = "graph" =>
       (IF stage = "encode" THEN ret ELSE ret2) = written

(***************************************************************************)
(* C4: SharedStructureDetected never reaches the caller of encode_binary;  *)
(* when the tree traversal raises it, the next step starts the graph       *)
(* traversal on an empty buffer; and what encode_binary returns after      *)
(* that is exactly what the graph traversal wrote.                         *)
(***************************************************************************)
C4_FallbackOnFreshBuffer == [][C4_Restart]_vars /\ []C4_Returned

\* encode_binary has returned after the fallback; the tree attempt, which
\* writes the begin of the value before it meets the repeated composite,
\* had written bytes
C4_ReturnedAfterFallback ==
  /\ job = "value" /\ stage = "encode" /\ pc = "returned"
  /\ trav.kind = "graph" /\ HasGetRef(ret) /\ ret = written

(***************************************************************************)
(* C5: for every tree-shaped value V that encode_binary encodes,           *)
(* decode_binary of the bytes returns and encode_binary of what it         *)
(* returned returns the same bytes.                                        *)
(***************************************************************************)
C5_ReencodeSameBytes ==
  job = "value" /\ IsTreeShaped(heap) =>
    /\ stage = "decode" /\ Exact(feed, ret) => pc # "raised"
    /\ stage = "reencode" => pc # "raised"
    /\ stage = "reencode" /\ pc = "returned" => ret2 = ret

\* the bytes of a tree-shaped map whose key is an array were handed to
\* decode_binary, which raised
C5_ArrayKeyRaises ==
  /\ job = "value" /\ IsTreeShaped(heap) /\ Len(heap) = 2
  /\ heap[1].kind = "map" /\ heap[1].items = <<Ref(2), IntV(1)>>
  /\ stage = "decode" /\ Exact(feed, ret) /\ pc = "raised" /\ err = "TypeError"

(***************************************************************************)
(* C6: for the bytes b that encode_binary returned for a value and any     *)
(* bytes t that follow them, decode_binary(b followed by t) returns, and   *)
(* returns what decode_binary(b) returns.                                  *)
(***************************************************************************)
C6_TrailingBytesIgnored ==
  job = "value" /\ stage = "decode" /\ feed.cut = Len(ret) /\ feed.tail # <<>>
  /\ Terminal =>
    /\ pc = "returned"
    /\ decode_binary(ret).returned
    /\ value = decode_binary(ret).value
    /\ bld.heap = decode_binary(ret).heap

\* decode_binary raised on a complete encoding followed by more bytes
C6_RaisedWithTrailingBytes ==
  /\ job = "value" /\ stage = "decode" /\ feed.cut = Len(ret)
  /\ feed.tail # <<>> /\ pc = "raised"

(***************************************************************************)
(* C7: when decode_binary returns, the decoder has taken from the input    *)
(* the bytes of the decoded value and none after them.                     *)
(***************************************************************************)
C7_ReadsOnlyTheValue ==
  job = "value" /\ stage = "decode" /\ feed.cut = Len(ret) /\ pc = "returned" =>
    dec.pos = Len(ret)

\* decode_binary returned and the decoder has taken a byte that follows
\* the value
C7_ReadPastTheValue ==
  /\ job = "value" /\ stage = "decode" /\ feed.cut = Len(ret)
  /\ pc = "returned" /\ dec.pos > Len(ret)

(***************************************************************************)
(* C8: handed a proper prefix of the bytes encode_binary returned,         *)
(* decode_binary does not return.                                          *)
(***************************************************************************)
C8_TruncatedInputFails ==
  job = "value" /\ stage = "decode" /\ feed.cut < Len(ret) => pc # "returned"

\* decode_binary returned a string from the encoding of a string cut
\* short
C8_ShortStringReturned ==
  /\ job = "value" /\ stage = "decode" /\ feed.cut < Len(ret)
  /\ root.t = "str" /\ pc = "returned" /\ value.t = "str" /\ value # root

\* the opcodes C9 lists as assigned: 0x00-0x05, 0x08, 0x09, 0x0d-0x0f,
\* 0x10-0x12, 0x14-0x17, 0x1a, 0x1b, 0x20-0x23, 0x28, 0x30-0x33, 0x38,
\* 0x48, 0x50-0x58, 0x60-0x63, 0x68, 0x80-0x88, 0xa0, 0xa1
AssignedOpcodes ==
  (0..5) \cup {8, 9, 13, 14, 15, 16, 17, 18} \cup (20..23) \cup {26, 27}
  \cup (32..35) \cup {40} \cup (48..51) \cup {56, 72} \cup (80..88)
  \cup (96..99) \cup {104} \cup (128..136) \cup {160, 161}

\* the byte in opcode position: the decoder's current byte, or the byte
\* after the ADD_REF bytes it stands on; None at the end of the input
RECURSIVE OpcodeInPosition(_)
OpcodeInPosition(d) ==
  IF ~d.has_more THEN None
  ELSE IF d.current = ADD_REF_TAG THEN OpcodeInPosition(advance(d))
  ELSE d.current

\* the step of decode_binary with a byte in opcode position
C9_Step ==
  LET op == OpcodeInPosition(dec)
      r == decode_next(dec, NoRef)
  IN AtInstruction /\ op # None =>
       /\ op \notin AssignedOpcodes =>
            /\ r.call = Call("on_invalid_instruction", op, NoRef)
            /\ pc' = "raised" /\ err' = "InvalidInstruction"
            /\ value' = value
       /\ op \in AssignedOpcodes => r.call.op # "on_invalid_instruction"

(***************************************************************************)
(* C9: whenever decode_binary calls decode_next with a byte in opcode      *)
(* position that is not an assigned opcode, the call made is               *)
(* on_invalid_instruction with that byte and decode_binary ends in the     *)
(* exception without a value; with an assigned opcode there, the call is   *)
(* never on_invalid_instruction.                                           *)
(***************************************************************************)
C9_UnassignedOpcodesFail == [][C9_Step]_vars

\* decode_binary raised on an unassigned opcode behind the first byte
C9_InvalidInstructionRaised ==
  /\ job = "raw" /\ stage = "decode" /\ pc = "raised"
  /\ err = "InvalidInstruction"
  /\ dec.pos > 1 /\ dec.current \notin AssignedOpcodes

\* the step of decode_binary at a GET_REF that names no registered slot
C10_Step ==
  LET r == decode_next(dec, NoRef)
  IN AtInstruction /\ r.d.err = "" /\ r.call.op = "on_get_ref"
     /\ (r.call.val < 0 \/ r.call.val \notin DOMAIN bld.refs) =>
       /\ pc' = "raised" /\ err' = "KeyError"
       /\ bld'.value_stack = bld.value_stack
       /\ bld'.pending_ends = bld.pending_ends
       /\ bld'.heap = bld.heap
       /\ value' = value

(***************************************************************************)
(* C10: a GET_REF whose resolved index is negative or is not a slot with   *)
(* a registered composite makes decode_binary end in an exception, and     *)
(* the builder pushes nothing for it: its value stack, pending ends and    *)
(* objects are as before.                                                  *)
(***************************************************************************)
C10_BadReferenceFails == [][C10_Step]_vars

\* decode_binary raised on a GET_REF to slot 0, which ADD_REF gave to an
\* int
C10_UnregisteredSlotRaised ==
  /\ job = "raw" /\ ret = <<34, ADD_REF_TAG, 0, GET_REF_TAG, 0>>
  /\ stage = "decode" /\ pc = "raised" /\ err = "KeyError"
  /\ dec.next_ref_offset = 1 /\ bld.refs = <<>>

\* the opcodes that begin an array, a map, a seed or a struct
CompositeBeginOpcodes ==
  (32..35) \cup {ARRAY_N_TAG} \cup (48..51) \cup {MAP_N_TAG}
  \cup (96..99) \cup {SEED_N_TAG} \cup (128..135) \cup {STRUCT_N_TAG}

\* every ADD_REF in opcode position of the stream the decoder stands in
\* has a composite-begin opcode as the next byte
RECURSIVE EachAddRefBeforeBegin(_)
EachAddRefBeforeBegin(d) ==
  IF ~d.has_more THEN TRUE
  ELSE IF d.current = ADD_REF_TAG
    THEN /\ advance(d).current \in CompositeBeginOpcodes
         /\ EachAddRefBeforeBegin(advance(d))
  ELSE LET r == decode_next(d, NoRef)
       IN r.d.err = "" /\ r.call.op # "on_invalid_instruction"
          /\ EachAddRefBeforeBegin(r.d)

\* the number of ADD_REF opcodes of the stream the decoder stands in
RECURSIVE AddRefCount(_)
AddRefCount(d) ==
  IF ~d.has_more THEN 0
  ELSE IF d.current = ADD_REF_TAG THEN 1 + AddRefCount(advance(d))
  ELSE LET r == decode_next(d, NoRef)
       IN IF r.d.err # "" \/ r.call.op = "on_invalid_instruction" THEN 0
          ELSE AddRefCount(r.d)

IsLabelled(call) == call.ref # NoRef

\* the composite-begin instructions of a stream that follow an ADD_REF, in
\* stream order
LabelledBegins(bytes) == SelectSeq(Instructions(NewDecoder(bytes)), IsLabelled)

\* the step of the traverser at a composite it assigns a slot to: the slot
\* is the number of ADD_REF opcodes written before, and what is written
\* is ADD_REF and then the begin of that composite
C11_Step ==
  LET id == Head(trav.todo).v.v
      add == should_add_ref(trav, id)
      k == AddRefCount(NewDecoder(written))
  IN Encoding /\ pc = "graph" /\ trav.todo # <<>> /\ IsRef(Head(trav.todo).v)
     /\ Head(trav.todo).depth <= MaxDepth /\ add.yes =>
       /\ add.t.ref_offsets[id] = k
       /\ written' = written \o <<ADD_REF_TAG>>
                     \o BinaryEncoder_visit(NewEncoder(<<>>),
                                            BeginCall(trav.heap[id], NoRef)).out
       /\ Head(Drop(written', Len(written) + 1)) \in CompositeBeginOpcodes

\* what encode_binary has written and what it returns
C11_Stream ==
  /\ job = "value" /\ Encoding /\ pc # "raised" =>
       EachAddRefBeforeBegin(NewDecoder(written))
  /\ job = "value" /\ Encoding /\ pc = "returned" =>
       LET out == IF stage = "encode" THEN ret ELSE ret2
       IN /\ EachAddRefBeforeBegin(NewDecoder(out))
          /\ Len(LabelledBegins(out)) = trav.ref_count
          /\ \A id \in DOMAIN trav.ref_offsets :
               LabelledBegins(out)[trav.ref_offsets[id] + 1]
                 = BeginCall(trav.heap[id], trav.ref_offsets[id])

(***************************************************************************)
(* C11: in the bytes encode_binary writes and returns, every ADD_REF       *)
(* opcode has a composite-begin opcode (array, map, seed or struct) as     *)
(* the next byte, and the k-th ADD_REF, counting from 0, is followed by    *)
(* the begin of the composite to which the traverser gave slot k.          *)
(***************************************************************************)
C11_AddRefLabelsItsComposite == [][C11_Step]_vars /\ []C11_Stream

\* encode_binary returned a stream with two ADD_REF opcodes: both objects
\* of the value are reached twice
C11_TwoSlotsReturned ==
  /\ job = "value" /\ stage = "encode" /\ pc = "returned"
  /\ trav.ref_count = 2 /\ AddRefCount(NewDecoder(ret)) = 2
  /\ ret[1] = ADD_REF_TAG

\* the number on_int or on_blob hands to _write_unsigned_int for an atom,
\* or None when it writes no varint
VarintArg(v) ==
  IF v.t = "int" /\ v.v >= 6 THEN v.v
  ELSE IF v.t = "int" /\ v.v <= -4 THEN -(v.v + 1)
  ELSE IF v.t = "blob" THEN Len(v.s)
  ELSE None

\* the bytes of that varint in the encoding of the atom: what follows the
\* tag, without the payload of a blob
VarintBytes(v, bytes) == SubSeq(bytes, 2, Len(bytes) - Len(v.s))

(***************************************************************************)
(* C12: the bytes _write_unsigned_int wrote for n >= 0 are all in 0..255,  *)
(* only the last of them is below 0x80, _read_unsigned_int reads them as   *)
(* n, and after the read the decoder's current byte is the byte right      *)
(* after the last group.                                                   *)
(***************************************************************************)
C12_VarintRoundTrip ==
  /\ job = "value" /\ heap = <<>> /\ VarintArg(root) # None
     /\ stage = "encode" /\ pc = "returned" =>
       LET n == VarintArg(root)
           g == VarintBytes(root, ret)
           r == read_unsigned_int(NewDecoder(g \o <<255>>))
       IN /\ Len(g) >= 1
          /\ \A i \in 1..Len(g) : g[i] \in 0..255 /\ (g[i] < 128 <=> i = Len(g))
          /\ r.d.err = "" /\ r.value = n
          /\ r.d.pos = Len(g) + 1 /\ r.d.current = 255
  /\ job = "value" /\ root.t = "int" /\ stage = "decode" /\ feed.cut = Len(ret)
     /\ pc = "run" /\ has_result(bld) =>
       /\ bld.result = root
       /\ dec.current = (IF feed.tail = <<>> THEN None ELSE feed.tail[1])
       /\ dec.pos = Len(ret) + (IF feed.tail = <<>> THEN 0 ELSE 1)

\* 16512, the first number of three groups, was written as 08 80 80 00,
\* read back, and the decoder stands on the byte after the 00
C12_ThreeGroupsReadBack ==
  /\ job = "value" /\ root = IntV(16512) /\ ret = <<INT_P_TAG, 128, 128, 0>>
  /\ stage = "decode" /\ feed.tail = <<33>> /\ feed.cut = 4
  /\ pc = "run" /\ has_result(bld) /\ bld.result = IntV(16512)
  /\ dec.current = 33

\* the groups of the varint at the head of bytes: up to and including the
\* first byte below 0x80
RECURSIVE VarintGroups(_)
VarintGroups(bytes) ==
  IF bytes = <<>> THEN <<>>
  ELSE IF Head(bytes) < 128 THEN <<Head(bytes)>>
  ELSE <<Head(bytes)>> \o VarintGroups(Tail(bytes))

\* 2^(7 * position)
RECURSIVE Shift7(_)
Shift7(position) == IF position = 0 THEN 1 ELSE 128 * Shift7(position - 1)

\* the sum over the groups from position i on, when the groups before the
\* last carry the bias and the last is plain
RECURSIVE BiasOnNonTerminal(_, _)
BiasOnNonTerminal(g, i) ==
  IF i > Len(g) THEN 0
  ELSE (IF i < Len(g) THEN (g[i] % 128) + 1 ELSE g[i]) * Shift7(i - 1)
       + BiasOnNonTerminal(g, i + 1)

\* the same sum when the first group is plain and every later group, the
\* last included, carries the bias
RECURSIVE BiasOnLater(_, _)
BiasOnLater(g, i) ==
  IF i > Len(g) THEN 0
  ELSE (IF i = 1 THEN g[i] % 128 ELSE (g[i] % 128) + 1) * Shift7(i - 1)
       + BiasOnLater(g, i + 1)

\* decode_binary has read a positive int (08 and a varint) from its input
ReadPositiveInt ==
  /\ stage = "decode" /\ pc = "run" /\ has_result(bld)
  /\ Input(ret, feed) # <<>> /\ Head(Input(ret, feed)) = INT_P_TAG

\* C13 as claimed: the value read is the sum in which the groups with the
\* high bit set contribute (byte & 0x7F) + 1 and the terminal group its
\* plain value, each shifted by 7 times its position
C13_BiasOnNonTerminalGroups ==
  ReadPositiveInt =>
    bld.result = IntV(BiasOnNonTerminal(VarintGroups(Tail(Input(ret, feed))), 1))

(***************************************************************************)
(* C13, amended: the value _read_unsigned_int reads is the sum in which    *)
(* the first group contributes byte & 0x7F and every later group, the      *)
(* terminal one included, contributes (byte & 0x7F) + 1, each shifted left *)
(* by 7 times the group's position.                                        *)
(***************************************************************************)
C13_BiasOnLaterGroups ==
  ReadPositiveInt =>
    bld.result = IntV(BiasOnLater(VarintGroups(Tail(Input(ret, feed))), 1))

\* 08 ff 81 01 was read as 127 + (1 + 1) * 128 + (1 + 1) * 16384
C13_ThreeGroupsRead ==
  /\ job = "raw" /\ ret = <<INT_P_TAG, 255, 129, 1>> /\ ReadPositiveInt
  /\ bld.result = IntV(33151)

\* the encoding of the integer v as C14 gives it
IntEncoding(v) ==
  IF v \in 0..5 THEN <<v>>
  ELSE IF v \in -3..-1 THEN <<16 + v>>
  ELSE IF v >= 0 THEN <<8>> \o write_unsigned_int(v)
  ELSE <<9>> \o write_unsigned_int(-(v + 1))

\* the integer that the stream bytes, which begins with an int opcode,
\* stands for
IntDecoding(bytes) ==
  LET op == Head(bytes)
      n == BiasOnLater(VarintGroups(Tail(bytes)), 1)
  IN IF op \in 0..5 THEN op
     ELSE IF op \in 13..15 THEN op - 16
     ELSE IF op = 8 THEN n
     ELSE -(n + 1)

(***************************************************************************)
(* C14: encode_binary writes an integer v as the one byte 0x00+v for v in  *)
(* 0..5 and 0x10+v for v in -3..-1, as 08 varint(v) for any other v >= 0   *)
(* and as 09 varint(-(v+1)) for any other v < 0, so that exactly the       *)
(* integers -3..5 take one byte; decode_binary returns v from the bytes    *)
(* written for v, and reads 09 n as -(n+1).                                *)
(***************************************************************************)
C14_IntForms ==
  /\ job = "value" /\ root.t = "int" /\ heap = <<>> =>
       /\ stage = "encode" /\ Terminal =>
            /\ pc = "returned"
            /\ ret = IntEncoding(root.v)
            /\ Len(ret) = 1 <=> root.v \in -3..5
       /\ stage = "decode" /\ Exact(feed, ret) /\ Terminal =>
            pc = "returned" /\ value = root
  /\ stage = "decode" /\ pc = "run" /\ has_result(bld)
     /\ Input(ret, feed) # <<>>
     /\ Head(Input(ret, feed)) \in (0..5) \cup {8, 9} \cup (13..15) =>
       bld.result = IntV(IntDecoding(Input(ret, feed)))

\* -4 was written as 09 03 and read back
C14_MinusFourTakesVarint ==
  /\ job = "value" /\ root = IntV(-4) /\ ret = <<INT_M_TAG, 3>>
  /\ stage = "decode" /\ Exact(feed, ret) /\ pc = "returned"
  /\ value = IntV(-4)

\* the visitor call the traverser makes first for the value of the
\* running encode_binary
FirstCall == decode(NewTreeDecoder(heap, root)).call

(***************************************************************************)
(* C15: a float handed to encode_binary is reported through on_float and   *)
(* encode_binary returns; decode_binary on a stream that is a complete     *)
(* Float32 or Float64 instruction, or an array of one such, returns, and   *)
(* returns a float or an array that holds one.                             *)
(***************************************************************************)
C15_FloatCarriedEndToEnd ==
  /\ job = "value" /\ root \in Floats /\ stage = "encode" /\ Terminal =>
       FirstCall.op = "on_float" /\ pc = "returned"
  /\ job = "raw" /\ ret \in FloatProbes /\ stage = "decode" /\ Terminal =>
       /\ pc = "returned"
       /\ \/ value.t = "float"
          \/ /\ IsRef(value) /\ Len(bld.heap[value.v].items) = 1
             /\ bld.heap[value.v].items[1].t = "float"

\* decode_binary was handed 1.5 as Float64 and ended in AttributeError:
\* the decoder made the on_float call and the builder has no such method
C15_BuilderHasNoOnFloat ==
  /\ job = "raw" /\ ret = <<FLOAT_64_TAG>> \o Zeros(6) \o <<248, 63>>
  /\ stage = "decode" /\ pc = "raised" /\ err = "AttributeError"
  /\ decode_next(NewDecoder(ret), NoRef).call.op = "on_float"

\* the least of the widths 2, 4, 8 and 16 bytes that holds the id: the
\* bytes before its last width bytes are zero
IdWidth(bytes) ==
  CHOOSE w \in {2, 4, 8, 16} :
    /\ \A i \in 1..(16 - w) : bytes[i] = 0
    /\ \A u \in {2, 4, 8, 16} : (\A i \in 1..(16 - u) : bytes[i] = 0) => w <= u

\* the tag of an id of width w: 0x14, 0x15, 0x16, 0x17
IdTag(w) == CASE w = 2 -> 20 [] w = 4 -> 21 [] w = 8 -> 22 [] w = 16 -> 23

\* the width of the id instruction with tag op
IdTagWidth(op) == CASE op = 20 -> 2 [] op = 21 -> 4 [] op = 22 -> 8 [] op = 23 -> 16

(***************************************************************************)
(* C16: encode_binary writes an id of value v with the least of the        *)
(* widths 16, 32, 64 and 128 bits for which v < 2^width (so 2^16, 2^32     *)
(* and 2^64 take the next larger width), as the tag 0x14..0x17 of that     *)
(* width and the low bytes of the id; decode_binary returns the same 16    *)
(* bytes, and reads any id instruction as its bytes behind zero bytes.     *)
(***************************************************************************)
C16_IdWidths ==
  /\ job = "value" /\ root.t = "id" /\ heap = <<>> =>
       /\ stage = "encode" /\ Terminal =>
            /\ pc = "returned"
            /\ ret = <<IdTag(IdWidth(root.s))>>
                     \o SubSeq(root.s, 17 - IdWidth(root.s), 16)
       /\ stage = "decode" /\ Exact(feed, ret) /\ Terminal =>
            pc = "returned" /\ value = root
  /\ stage = "decode" /\ pc = "run" /\ has_result(bld)
     /\ Input(ret, feed) # <<>> /\ Head(Input(ret, feed)) \in 20..23 =>
       LET w == IdTagWidth(Head(Input(ret, feed)))
       IN bld.result = IdV(Zeros(16 - w) \o SubSeq(Input(ret, feed), 2, w + 1))

\* the id of value 2^32 was written with tag 0x16 and eight bytes, and
\* read back
C16_TwoToThe32TakesEightBytes ==
  /\ job = "value" /\ root = IdWith(12, 1)
  /\ ret = <<ID_64_TAG, 0, 0, 0, 1, 0, 0, 0, 0>>
  /\ stage = "decode" /\ Exact(feed, ret) /\ pc = "returned" /\ value = root

\* the tag of length n as C17 gives it: base+n up to limit, and above it
\* base+8 followed by varint(n)
ShortOrLong(base, n, limit) ==
  IF n <= limit THEN <<base + n>> ELSE <<base + 8>> \o write_unsigned_int(n)

\* the base tag of a composite with a length: 0x20, 0x30, 0x60
LengthBase(kind) ==
  CASE kind = "array" -> 32 [] kind = "map" -> 48 [] kind = "seed" -> 96

\* the number of entries of an array, a map or a seed
EntryCount(cell) ==
  IF cell.kind = "array" THEN Len(cell.items) ELSE Len(cell.items) \div 2

\* the short form of a stream of LongFormProbes
ShortForm(long) ==
  IF long[1] = DEFAULT_STRING_N_TAG
    THEN <<DEFAULT_STRING_0_TAG + long[2]>> \o Drop(long, 2)
    ELSE <<long[1] - 8 + long[2]>> \o Drop(long, 2)

\* the visitor call the decoder makes first on a stream
FirstReport(bytes) == decode_next(NewDecoder(bytes), NoRef).call

(***************************************************************************)
(* C17: encode_binary writes a string of byte length L with tag 0x50+L     *)
(* for L <= 7 and with 58 varint(L) for L >= 8, and an array, map or seed  *)
(* of n entries with tag base+n for n <= 3 and with base+8 varint(n) for   *)
(* n >= 4 (base 0x20, 0x30, 0x60); the decoder reports that length from    *)
(* the bytes written, and reports from a long form written for a small     *)
(* length what it reports from the short form.                             *)
(***************************************************************************)
C17_LengthForms ==
  /\ job = "value" /\ root.t = "str" /\ stage = "encode" /\ Terminal =>
       LET bytes == Utf8Encode(root.s)
       IN /\ pc = "returned"
          /\ ret = ShortOrLong(80, Len(bytes), 7) \o bytes
          /\ FirstReport(ret) = Call("on_string", bytes, NoRef)
  /\ job = "value" /\ IsRef(root) /\ heap[1].kind # "struct"
     /\ stage = "encode" /\ pc = "returned" =>
       LET n == EntryCount(heap[1])
           tag == ShortOrLong(LengthBase(heap[1].kind), n, 3)
           body == IF ret[1] = ADD_REF_TAG THEN Tail(ret) ELSE ret
       IN /\ Take(body, Len(tag)) = tag
          /\ FirstReport(ret).op = BeginCall(heap[1], NoRef).op
          /\ FirstReport(ret).val = n
  /\ job = "raw" /\ ret \in LongFormProbes /\ stage = "decode" /\ Terminal =>
       /\ pc = "returned"
       /\ FirstReport(ret) = FirstReport(ShortForm(ret))
       /\ value = decode_binary(ShortForm(ret)).value
       /\ bld.heap = decode_binary(ShortForm(ret)).heap

\* a string of seven characters and eight bytes was written in the long
\* form
C17_EightBytesTakeLongForm ==
  /\ job = "value" /\ root = StrV(Repeat(97, 6) \o <<233>>)
  /\ stage = "encode" /\ pc = "returned"
  /\ SubSeq(ret, 1, 2) = <<DEFAULT_STRING_N_TAG, 8>> /\ Len(ret) = 10

\* the decoder after the first instruction of the stream
AfterFirst(bytes) == decode_next(NewDecoder(bytes), NoRef).d

\* the struct the running encode_binary was handed on its own
LoneStruct ==
  job = "value" /\ IsRef(root) /\ Len(heap) = 1 /\ heap[1].kind = "struct"
  /\ NonDecreasing(heap[1].tags)
  /\ \A i \in 1..Len(heap[1].items) :
       heap[1].items[i].t = "int" /\ heap[1].items[i].v \in 0..5

(***************************************************************************)
(* C18: encode_binary writes a struct of a non-decreasing tag vector with  *)
(* tag 0x80+k when the vector is [0..k-1] and k <= 7, and otherwise with   *)
(* 88, varint(count) and the bytes of the nibble stream; from those bytes  *)
(* the decoder reports the same tag vector and then stands on the first    *)
(* byte after the tag stream, the first byte of the first field value,     *)
(* whether the stream ended on a whole byte or on a half; and              *)
(* decode_binary returns a struct of the same tags and values.             *)
(***************************************************************************)
C18_StructTagsRoundTrip ==
  /\ LoneStruct /\ stage = "encode" /\ Terminal =>
       LET tags == heap[1].tags
           k == Len(tags)
           \* every field is an integer of 0..5, which takes one byte
           head == SubSeq(ret, 1, Len(ret) - k)
           count == write_unsigned_int(k)
       IN /\ pc = "returned"
          /\ IF k <= 7 /\ tags = Linear(k)
               THEN head = <<128 + k>>
               ELSE /\ SubSeq(head, 1, 1 + Len(count)) = <<136>> \o count
                    /\ Len(head) > 1 + Len(count)
          /\ FirstReport(ret).op = "on_begin_struct"
          /\ FirstReport(ret).val = tags
          /\ AfterFirst(ret).pos = Len(head) + (IF k > 0 THEN 1 ELSE 0)
          /\ AfterFirst(ret).current = (IF k > 0 THEN heap[1].items[1].v ELSE None)
  /\ LoneStruct /\ stage = "decode" /\ Exact(feed, ret) /\ Terminal =>
       /\ pc = "returned"
       /\ bld.heap = heap /\ value = root

\* the struct of tags [0, 1, 1] was written with the nibbles 0, 1, 0, 1,
\* which end on a whole byte so that no pad follows, and was read back
C18_WholeByteStreamRead ==
  /\ LoneStruct /\ heap[1].tags = <<0, 1, 1>>
  /\ ret = <<136, 3, 1, 1, 3, 3, 3>>
  /\ stage = "decode" /\ pc = "returned" /\ value = root /\ bld.heap = heap

\* the struct of tags [0, 0, 0] whose fields hold 3
ThreeZeroTags == <<StructCell(<<0, 0, 0>>, <<IntV(3), IntV(3), IntV(3)>>)>>

\* C19 as claimed: the struct of tags [0, 0, 0] is written as 88 03 and
\* the nibbles 0, 0, 3 and a zero pad, the bytes 00 30, and the decoder
\* reads that stream as the tags [0, 0, 0]
C19_RunLengthThree ==
  /\ job = "value" /\ heap = ThreeZeroTags /\ stage = "encode" /\ Terminal =>
       pc = "returned" /\ SubSeq(ret, 1, 4) = <<136, 3, 0, 48>>
  /\ job = "raw" /\ ret = <<136, 3, 0, 48, 3, 3, 3>> /\ stage = "decode"
     /\ Terminal =>
       pc = "returned" /\ bld.heap = ThreeZeroTags

(***************************************************************************)
(* C19, amended: the struct of tags [0, 0, 0] is written as 88 03 and the  *)
(* nibbles 0, 0, 2 and a zero pad, the bytes 00 20: after the first tag,   *)
(* a repeat is written as nibble-varint 0 followed by the number of        *)
(* further occurrences of the tag, here 2; the decoder reads that stream   *)
(* as the tags [0, 0, 0].                                                  *)
(***************************************************************************)
C19_RunLengthTwo ==
  /\ job = "value" /\ heap = ThreeZeroTags /\ stage = "encode" /\ Terminal =>
       pc = "returned" /\ SubSeq(ret, 1, 4) = <<136, 3, 0, 32>>
  /\ job = "raw" /\ ret = <<136, 3, 0, 32, 3, 3, 3>> /\ stage = "decode"
     /\ Terminal =>
       pc = "returned" /\ bld.heap = ThreeZeroTags

\* decode_binary returned the struct of tags [0, 0, 0] from
\* 88 03 00 20 03 03 03, the bytes encode_binary wrote for it
C19_ThreeZeroTagsReadBack ==
  /\ job = "value" /\ heap = ThreeZeroTags
  /\ ret = <<136, 3, 0, 32, 3, 3, 3>>
  /\ stage = "decode" /\ Exact(feed, ret) /\ pc = "returned"
  /\ bld.heap = ThreeZeroTags

\* a = [] and the value [a, a]
SameListTwice == <<ArrayCell(<<Ref(2), Ref(2)>>), ArrayCell(<<>>)>>

(***************************************************************************)
(* C20: with a = [], encode_binary([a, a]) returns 22 a0 20 a1 00, and     *)
(* returns it from the graph traversal: the tree traversal has written 22  *)
(* 20 when it meets a the second time and raises SharedStructureDetected.  *)
(***************************************************************************)
C20_SameListTwiceEncoding ==
  job = "value" /\ heap = SameListTwice /\ stage = "encode" =>
    /\ pc = "shared" =>
         /\ trav.kind = "tree" /\ trav.err = "SharedStructureDetected"
         /\ written = <<34, 32>>
    /\ Terminal =>
         /\ pc = "returned"
         /\ trav.kind = "graph"
         /\ ret = <<34, 160, 32, 161, 0>>

\* encode_binary([a, a]) returned 22 a0 20 a1 00 after the fallback
C20_SameListTwiceReturned ==
  /\ job = "value" /\ heap = SameListTwice /\ stage = "encode"
  /\ pc = "returned" /\ trav.kind = "graph"
  /\ ret = <<34, ADD_REF_TAG, 32, GET_REF_TAG, 0>>

(***************************************************************************)
(* Claim C21: which floats take the 4-byte form.                           *)
(***************************************************************************)
\* the binary64 of the number that the 4 bytes of a normal binary32, a
\* zero, an infinity or a NaN denote
Binary32Value(data) ==
  LET sign == data[4] \div 128
      exponent == (data[4] % 128) * 2 + (data[3] \div 128)
      significand == (data[3] % 128) * 65536 + data[2] * 256 + data[1]
  IN IF exponent = 0 THEN Double(sign, 0, 0, 0).s
     ELSE IF exponent = 255 THEN Double(sign, 2047, significand, 0).s
     ELSE Double(sign, exponent - 127 + 1023, significand, 0).s

FloatIsNan(bs) ==
  /\ FloatFields(bs).exponent = 2047
  /\ FloatFields(bs).high # 0 \/ FloatFields(bs).low # 0

\* the float in root is 0.0, an infinity or a NaN, or its unbiased
\* exponent lies in [-126, 127] and the low 29 bits of its significand
\* are zero
FitsSinglePrecision ==
  \/ root \in {Double(sign, 0, 0, 0) : sign \in {0, 1}}
  \/ FloatFields(root.s).exponent = 2047
  \/ /\ FloatFields(root.s).exponent - 1023 \in -126..127
     /\ FloatFields(root.s).low = 0

\* what the call returned, without the tag on_float wrote in front
PackedFloat == IF stage = "on_float" THEN Tail(ret) ELSE ret

(***************************************************************************)
(* C21: _encode_float returns the 4-byte binary32 form, which on_float     *)
(* writes after the tag 0x1a, exactly when the value is 0.0, an infinity   *)
(* or a NaN, or its unbiased exponent lies in [-126, 127] and the low 29   *)
(* bits of its significand are zero, and those 4 bytes then denote the     *)
(* same number; otherwise it returns the 8 bytes of the binary64, written  *)
(* after the tag 0x1b.  +/-2^24 and 2^20 - 2^-4 take 4 bytes,              *)
(* +/-(2^24 + 1) and 2^20 + 2^-4 take 8.                                   *)
(***************************************************************************)
C21_Float32IffRepresentable ==
  job = "float" /\ pc = "returned" =>
    /\ IF FitsSinglePrecision
         THEN /\ Len(PackedFloat) = 4
              /\ stage = "on_float" => ret[1] = FLOAT_32_TAG
              /\ ~FloatIsNan(root.s) => Binary32Value(PackedFloat) = root.s
              /\ FloatIsNan(root.s) => FloatIsNan(Binary32Value(PackedFloat))
         ELSE /\ PackedFloat = root.s
              /\ stage = "on_float" => ret[1] = FLOAT_64_TAG
    /\ \A sign \in {0, 1} :
         /\ root = Double(sign, 1047, 0, 0) => Len(PackedFloat) = 4
         /\ root = Double(sign, 1047, 0, 268435456) => Len(PackedFloat) = 8
    /\ root = Double(0, 1042, 8388607, 0) => Len(PackedFloat) = 4
    /\ root = Double(0, 1043, 0, 268435456) => Len(PackedFloat) = 8

\* on_float has written 2^24 + 1 as a Float64
C21_TwoTo24Plus1TakesEightBytes ==
  /\ job = "float" /\ stage = "on_float" /\ pc = "returned"
  /\ root = Double(0, 1047, 0, 268435456)
  /\ ret = <<FLOAT_64_TAG>> \o root.s

(***************************************************************************)
(* Claim C22: the builder driven by the graph traversal makes a clone.     *)
(***************************************************************************)
(***************************************************************************)
(* C22: ObjectGraphDecoder(builder).decode(V) on an ObjectBuilder, with    *)
(* no bytes in between, ends with builder.result a value structurally      *)
(* equal to V in a newly built object graph, in which a composite that V   *)
(* holds at several places or inside itself is built once and resolved     *)
(* through on_get_ref.                                                     *)
(***************************************************************************)
C22_CloneIsStructurallyEqual ==
  job = "clone" /\ Terminal =>
    /\ pc = "returned"
    /\ is_structurally_equal(heap, root, bld.heap, value, {})
    /\ Len(bld.heap) = Len(heap)

\* the traversal of a seed that is its own header ended in RecursionError
C22_SeedInItsOwnHeaderRaised ==
  /\ job = "clone" /\ pc = "raised" /\ err = "RecursionError"
  /\ heap = <<SeedCell(Ref(1), <<>>)>>

(***************************************************************************)
(* Claim C24: encode_binary ends on every finite graph.                    *)
(***************************************************************************)
\* V is a composite and holds no float
GraphWithoutFloat ==
  /\ IsRef(root)
  /\ \A i \in DOMAIN heap :
       \A j \in DOMAIN heap[i].items : heap[i].items[j].t # "float"

IsBegin(call) == call.op \in BeginCalls

(***************************************************************************)
(* C24: encode_binary ends and returns bytes for every finite value        *)
(* graph, the cyclic ones included, whichever child position closes the    *)
(* cycle (array element, map value, seed header, seed field value, struct  *)
(* field value), and the bytes hold one composite-begin for every          *)
(* composite of the graph: every further entry into a composite is a       *)
(* GET_REF.                                                                *)
(***************************************************************************)
C24_EncodeBinaryReturns ==
  job = "value" /\ stage = "encode" /\ Terminal /\ GraphWithoutFloat =>
    /\ pc = "returned"
    /\ Len(SelectSeq(Instructions(NewDecoder(ret)), IsBegin)) = Len(heap)

\* encode_binary of a seed that is its own header ended in RecursionError
C24_HeaderCycleRaised ==
  /\ job = "value" /\ stage = "encode" /\ pc = "raised"
  /\ err = "RecursionError"
  /\ trav.kind = "graph"
  /\ heap = <<SeedCell(Ref(1), <<>>)>>

(***************************************************************************)
(* Claim C25: which composites the graph traversal labels.                 *)
(***************************************************************************)
\* a step of the graph traversal at composite c: the call it makes, what
\* the encoder writes for it and what becomes of ref_offsets
C25_Step ==
  /\ Encoding /\ pc = "graph" /\ trav.todo # <<>>
  /\ IsRef(Head(trav.todo).v) /\ Head(trav.todo).depth <= MaxDepth
  => LET c == Head(trav.todo).v.v
         call == decode(trav).call
         wrote == Drop(written', Len(written))
     IN /\ c \in trav.has_seen_twice /\ c \notin DOMAIN trav.ref_offsets =>
             /\ IsBegin(call) /\ call.ref # NoRef
             /\ c \in DOMAIN trav'.ref_offsets
             /\ trav'.ref_offsets[c] = call.ref
             /\ wrote[1] = ADD_REF_TAG
        /\ c \in DOMAIN trav.ref_offsets =>
             /\ call = Call("on_get_ref", trav.ref_offsets[c], NoRef)
             /\ trav'.ref_offsets = trav.ref_offsets
             /\ wrote[1] = GET_REF_TAG
        /\ c \notin trav.has_seen_twice =>
             /\ IsBegin(call) /\ call.ref = NoRef
             /\ trav'.ref_offsets = trav.ref_offsets
             /\ wrote[1] \notin {ADD_REF_TAG, GET_REF_TAG}
        /\ trav'.has_seen_twice = trav.has_seen_twice
        /\ \A k \in DOMAIN trav.ref_offsets :
             /\ k \in DOMAIN trav'.ref_offsets
             /\ trav'.ref_offsets[k] = trav.ref_offsets[k]

\* only a composite of has_seen_twice has a key, no two have the same
\* key, and when the traversal has returned every one of them has one
C25_Keys ==
  Encoding /\ trav.kind = "graph" =>
    /\ DOMAIN trav.ref_offsets \subseteq trav.has_seen_twice
    /\ \A j, k \in DOMAIN trav.ref_offsets :
         trav.ref_offsets[j] = trav.ref_offsets[k] => j = k
    /\ pc = "returned" => DOMAIN trav.ref_offsets = trav.has_seen_twice

(***************************************************************************)
(* C25: during a graph traversal, a composite of has_seen_twice is given   *)
(* a ref key by exactly one on_begin_* call, its first emission, and is    *)
(* emitted as on_get_ref with that same key at every later occurrence and  *)
(* never before; a composite that is not in has_seen_twice is never given  *)
(* a ref key.                                                              *)
(***************************************************************************)
C25_OneLabelledBeginThenGetRefs == [][C25_Step]_vars /\ []C25_Keys

\* the graph traversal of a = [b], b = [a] has returned: a is labelled and
\* referred to, b is not labelled
C25_TwoArrayCycleReturned ==
  /\ job = "value" /\ stage = "encode" /\ pc = "returned"
  /\ heap = <<ArrayCell(<<Ref(2)>>), ArrayCell(<<Ref(1)>>)>>
  /\ trav.has_seen_twice = {1}
  /\ DOMAIN trav.ref_offsets = {1}
  /\ ret = <<ADD_REF_TAG, 33, 33, GET_REF_TAG, 0>>


(***************************************************************************)
(* Claim C26: the slot numbers of traverser, encoder and decoder.          *)
(***************************************************************************)
\* a step of the graph traversal at a composite: the ref key of the call
\* against the traverser's and the encoder's counters and against what a
\* BinaryDecoder reads from the bytes written so far
C26_Step ==
  /\ Encoding /\ pc = "graph" /\ trav.todo # <<>>
  /\ IsRef(Head(trav.todo).v) /\ Head(trav.todo).depth <= MaxDepth
  => LET c == Head(trav.todo).v.v
         call == decode(trav).call
         read == Instructions(NewDecoder(written'))
     IN /\ call.ref # NoRef =>
             /\ call.ref = trav'.ref_offsets[c]
             /\ call.ref = enc.ref_count
             /\ call.ref = AddRefCount(NewDecoder(written))
             /\ enc'.ref_count = call.ref + 1
             /\ Last(read) = call
        /\ call.op = "on_get_ref" =>
             /\ enc.ref_count - 1 - call.val >= 0
             /\ enc'.err = "" /\ pc' = "graph"
             /\ Drop(written', Len(written))
                  = <<GET_REF_TAG>>
                    \o write_unsigned_int(enc.ref_count - 1 - call.val)
             /\ Last(read) = call

\* the decoder of decode_binary, fed what a graph traversal returned,
\* hands the builder only keys the traverser gave out
C26_Decoder ==
  /\ job = "value" /\ stage = "decode" /\ Exact(feed, ret)
  /\ trav.kind = "graph" /\ dec.err = ""
  => /\ dec.next_ref_offset <= trav.ref_count
     /\ DOMAIN bld.refs \subseteq 0..(trav.ref_count - 1)
     /\ err # "AssertionError"

(***************************************************************************)
(* C26: whenever the graph traverser passes ref key k to an on_begin_*     *)
(* call, k is ref_offsets of that composite and the number of ADD_REF      *)
(* opcodes the BinaryEncoder has written before; for every on_get_ref(k)   *)
(* the operand ref_count - 1 - k is at least 0, no AssertionError is       *)
(* raised, and a BinaryDecoder reading the written bytes makes the same    *)
(* call, with the same k.                                                  *)
(***************************************************************************)
C26_SlotNumbersAgree == [][C26_Step]_vars /\ []C26_Decoder

\* decode_binary has returned from a stream with two slots in which slot
\* 0 is referred to after slot 1 was given out: GET_REF with operand 1
C26_OlderSlotReferredTo ==
  /\ job = "value" /\ stage = "decode" /\ pc = "returned" /\ Exact(feed, ret)
  /\ trav.kind = "graph" /\ trav.ref_count = 2
  /\ \E i \in 1..(Len(ret) - 1) : ret[i] = GET_REF_TAG /\ ret[i + 1] = 1
  /\ \E i \in DOMAIN Instructions(NewDecoder(ret)) :
       Instructions(NewDecoder(ret))[i] = Call("on_get_ref", 0, NoRef)


(***************************************************************************)
(* Claim C27: when an ObjectBuilder has its result.                        *)
(***************************************************************************)
\* the bottom end of _init after the one value it ever receives
BottomSentinel == [Frame(2, "1", Null, <<>>) EXCEPT !.added = 1]

RECURSIVE AddedSum(_, _)
AddedSum(ends, upto) ==
  IF upto = 0 THEN 0 ELSE ends[upto].added + AddedSum(ends, upto - 1)

\* the values on the stack that pending end j has received, in push order
Received(b, j) ==
  SubSeq(b.value_stack, AddedSum(b.pending_ends, j - 1) + 1,
         AddedSum(b.pending_ends, j))

\* what the callback of a completed end has made of the values it was
\* called with, in builder b
MadeOf(b, end, values) ==
  CASE end.cb = "_store_result" -> b.result = values[1]
    [] end.cb \in {"_end_array", "_end_struct"} ->
         b.heap[end.open.v].items = values
    [] end.cb = "_end_seed_header" -> b.heap[end.open.v].header = values[1]
    [] end.cb \in {"_end_map", "_end_seed"} ->
         b.heap[end.open.v].items
           = FillDict([b EXCEPT !.heap[end.open.v].items = <<>>],
                      end.open.v, values).heap[end.open.v].items
    [] OTHER -> FALSE

\* the counts after a call has returned
C28_Counts ==
  stage = "decode" /\ bld.err = "" =>
    /\ Len(bld.value_stack) = AddedSum(bld.pending_ends, Len(bld.pending_ends))
    /\ \A j \in DOMAIN bld.pending_ends :
         bld.pending_ends[j].added < bld.pending_ends[j].total

\* one visitor call of decode_binary's loop that returns: either it only
\* schedules an end, or it pushes one value x, which completes the ends
\* above some end k, each with the values it had received and then the
\* composite completed above it (x for the top one), and end k receives
\* the last of them unless a seed's fields were scheduled on it
C28_Step ==
  LET call == decode_next(dec, NoRef)
      old == bld.pending_ends
      new == bld'.pending_ends
      n == Len(old)
      alone == ObjectBuilder_visit(
                 [bld EXCEPT !.pending_ends = <<Head(NewBuilder.pending_ends)>>,
                             !.value_stack = <<>>], call.call)
      x == alone.value_stack[1]
      sched == Last(new).added = 0
      k == IF sched THEN Len(new) - 1 ELSE Len(new)
      X(j) == IF j = n THEN x ELSE old[j + 1].open
  IN /\ stage = "decode" /\ pc = "run" /\ ~has_result(bld)
     /\ call.d.err = "" /\ bld'.err = ""
     => IF alone.value_stack = <<>>
          THEN /\ new = Append(old, Last(new)) /\ sched
               /\ bld'.value_stack = bld.value_stack
          ELSE /\ k <= n
               /\ \A j \in 1..(k - 1) : new[j] = old[j]
               /\ new[k] = IF sched THEN old[k]
                           ELSE [old[k] EXCEPT !.added = @ + 1]
               /\ bld'.value_stack
                    = SubSeq(bld.value_stack, 1, AddedSum(old, k))
                      \o (IF sched THEN <<>> ELSE <<X(k)>>)
               /\ \A j \in (k + 1)..n :
                    /\ old[j].added + 1 = old[j].total
                    /\ MadeOf(bld', old[j], Append(Received(bld, j), X(j)))

(***************************************************************************)
(* C28: after every visitor call on an ObjectBuilder that returns, the     *)
(* length of the value stack is the sum of the added counts of the         *)
(* pending ends and every pending end has received fewer values than its   *)
(* total; an end that completes is called with exactly the values pushed   *)
(* for it, in push order; one push can complete several nested ends.       *)
(***************************************************************************)
C28_StackMatchesPendingEnds == [][C28_Step]_vars /\ []C28_Counts

\* decode_binary has read [[0]]: the push of 0 completed the inner array,
\* the outer array and the end that stores the result
C28_ThreeEndsInOnePush ==
  /\ stage = "decode" /\ pc = "run" /\ has_result(bld)
  /\ dec.input = <<33, 33, 0>>
  /\ bld.heap = <<ArrayCell(<<Ref(2)>>), ArrayCell(<<IntV(0)>>)>>
  /\ bld.result = Ref(1)


(***************************************************************************)
(* Claim C29: the bias-1 varint is canonical and compact.                  *)
(***************************************************************************)
\* the number of bytes of n in LEB128
RECURSIVE Leb128Len(_)
Leb128Len(n) == IF n < 128 THEN 1 ELSE 1 + Leb128Len(n \div 128)

(***************************************************************************)
(* C29: whatever groups _read_unsigned_int reads as n, they are the bytes  *)
(* _write_unsigned_int writes for n, so no two byte sequences are read as  *)
(* the same number; the writer takes one byte exactly for 0..127 and two   *)
(* bytes exactly for 128..16511, never more bytes than LEB128, and one     *)
(* byte fewer than LEB128 for 16384..16511.                                *)
(***************************************************************************)
C29_VarintCanonicalAndCompact ==
  /\ ReadPositiveInt =>
       write_unsigned_int(bld.result.v) = VarintGroups(Tail(Input(ret, feed)))
  /\ job = "value" /\ heap = <<>> /\ VarintArg(root) # None
     /\ stage = "encode" /\ pc = "returned" =>
       LET n == VarintArg(root)
           g == VarintBytes(root, ret)
       IN /\ Len(g) = 1 <=> n \in 0..127
          /\ Len(g) = 2 <=> n \in 128..16511
          /\ Len(g) <= Leb128Len(n)
          /\ n \in 16384..16511 => Len(g) = Leb128Len(n) - 1

\* 16511, three bytes in LEB128, was written in two, ff 7f, and
\* decode_binary has read them back as 16511
C29_LastTwoByteNumberReadBack ==
  /\ job = "value" /\ root = IntV(16511) /\ ret = <<INT_P_TAG, 255, 127>>
  /\ Leb128Len(16511) = 3
  /\ ReadPositiveInt /\ Exact(feed, ret) /\ bld.result = IntV(16511)


(***************************************************************************)
(* Claim C30: the entries of a map the builder completes.                  *)
(***************************************************************************)
\* the keys of the entries key, value, key, value, ...
Keys(items) == [i \in 1..(Len(items) \div 2) |-> items[2 * i - 1]]

\* pending end j of the builder is gone after the step: it has completed
Completes(j) ==
  /\ j \in DOMAIN bld.pending_ends
  /\ \A i \in DOMAIN bld'.pending_ends :
       bld'.pending_ends[i].cb # bld.pending_ends[j].cb
       \/ bld'.pending_ends[i].open # bld.pending_ends[j].open

\* one call of decode_binary's loop that returns: on_begin_map(n) with
\* n > 0 schedules an end for 2n values, and an _end_map end that
\* completes has received its 2n-th value and leaves a map of n entries
\* whose keys are the keys received, in the order received
C30_Step ==
  LET call == decode_next(dec, NoRef)
      old == bld.pending_ends
  IN /\ stage = "decode" /\ pc = "run" /\ ~has_result(bld)
     /\ call.d.err = "" /\ bld'.err = ""
     => /\ call.call.op = "on_begin_map" /\ call.call.val > 0 =>
             /\ Last(bld'.pending_ends).cb = "_end_map"
             /\ Last(bld'.pending_ends).total = 2 * call.call.val
             /\ Last(bld'.pending_ends).added = 0
        /\ call.call.op = "on_begin_map" /\ call.call.val = 0 =>
             Last(bld'.heap).kind = "map" /\ Last(bld'.heap).items = <<>>
        /\ \A j \in DOMAIN old : old[j].cb = "_end_map" /\ Completes(j) =>
             LET map == bld'.heap[old[j].open.v]
             IN /\ old[j].added + 1 = old[j].total
                /\ Len(map.items) = old[j].total
                /\ Front(Keys(map.items)) = Front(Keys(Received(bld, j) \o <<Null>>))

(***************************************************************************)
(* C30: for a map instruction of length n the builder consumes exactly     *)
(* 2n child values and the completed map has exactly n entries, in the     *)
(* order in which the keys appear in the stream, for every instruction     *)
(* stream, one that repeats a key within the same map included.            *)
(***************************************************************************)
C30_MapOfLengthNHasNEntries == [][C30_Step]_vars

\* decode_binary has read the map of length 2 whose two keys are both 0:
\* the map it built has one entry, 0: 0
C30_RepeatedKeyLeavesOneEntry ==
  /\ job = "raw" /\ ret = <<MAP_0_TAG + 2, 0, 0, 0, 0>> /\ Exact(feed, ret)
  /\ stage = "decode" /\ pc = "returned"
  /\ value = Ref(1)
  /\ bld.heap = <<MapCell(<<IntV(0), IntV(0)>>)>>


(***************************************************************************)
(* Claim C23: the text round trip.                                         *)
(***************************************************************************)
\* the value holds no float, no struct, no string with a double quote, no
\* composite as a seed header and no composite as a key
PlainForText ==
  LET TextAtom(x) == x.t # "float" /\ (x.t = "str" => \A i \in 1..Len(x.s) : x.s[i] # 34)
  IN /\ TextAtom(root)
     /\ \A i \in 1..Len(heap) :
          /\ heap[i].kind # "struct"
          /\ ~IsRef(heap[i].header) /\ TextAtom(heap[i].header)
          /\ \A j \in 1..Len(heap[i].items) :
               /\ TextAtom(heap[i].items[j])
               /\ heap[i].kind \in {"map", "seed"} /\ j % 2 = 1 =>
                    ~IsRef(heap[i].items[j])

(***************************************************************************)
(* C23: for every value V, decode_text(encode_text(V)) returns a value     *)
(* structurally equal to V: encode_text(V) returns, decode_text of the     *)
(* text it returned returns, and what it returns is structurally equal to  *)
(* V, whether V is an atom, an array, a map, a seed or a struct.           *)
(***************************************************************************)
C23_TextRoundTrip ==
  job = "text" =>
    /\ stage = "encode_text" => pc # "raised"
    /\ stage = "decode_text" =>
         /\ pc = "returned"
         /\ is_structurally_equal(heap, root, bld.heap, value, {})

\* the struct of the one field 0: 3 was written as the text 3, the text
\* of its field, and decode_text returned the integer 3
C23_StructReadBackAsItsField ==
  /\ job = "text" /\ stage = "decode_text" /\ pc = "returned"
  /\ heap = <<StructCell(<<0>>, <<IntV(3)>>)>> /\ root = Ref(1)
  /\ ret = <<51>>
  /\ value = IntV(3)
  /\ ~is_structurally_equal(heap, root, bld.heap, value, {})

\* on the values of PlainForText the text round trip holds
PlainValuesRoundTrip == PlainForText => C23_TextRoundTrip

=============================================================================
